---------------------------- MODULE Spec2Model ----------------------------
(***************************************************************************)
(* Model of the speaking-assessment pipeline: the audio feature extractor  *)
(* (audio-processor.js), the transcript analyzer (transcriber.js) and the  *)
(* scoring engine (ai-analyzer.js, kept as src/unnamed/part_000).          *)
(***************************************************************************)
EXTENDS Integers, Sequences, FiniteSets, TLC

VARIABLES
    pc,                     \* position of the operation under analysis
    scores,                 \* calculateOverallScore: the skill -> score map passed in
    keyOrder,               \* calculateOverallScore: order in which `for (key in scores)` enumerates
    overallScore,           \* value returned by calculateOverallScore
    level,                  \* value returned by determineLevel
    audioFeatures,          \* the FeatureSet handed to analyzeFullSpeaking
    topic,                  \* the topic identifier handed to analyzeFullSpeaking
    transcriptionAnalysis,  \* the TranscriptAnalysis handed to analyzeFullSpeaking, or NoTranscript
    assessment,             \* the Assessment analyzeFullSpeaking returns
    calls,                  \* the calls of analyzeFullSpeaking so far: arguments and result
    text,                   \* the transcript text handed to analyzeTranscript
    wordList,               \* the words handed to detectAdvancedVocabulary
    advancedFound,          \* the list returned by detectAdvancedVocabulary
    textAnalysis,           \* the TranscriptAnalysis analyzeTranscript returns
    audioBuffer,            \* AudioProcessor.audioBuffer: the decoded samples and their rate
    extraction,             \* how extractFeatures ended, and the FeatureSet it returned
    analyzedDuration,       \* value returned by analyzeDuration
    detectedPauses,         \* value returned by detectPauses
    estimatedRate,          \* value returned by estimateSpeechRate
    storedAssessments,      \* localStorage[STORAGE_KEY]: the saved assessments, newest first
    storedAudio,            \* the assessment ids with a localStorage[AUDIO_KEY + id] item
    storedStats,            \* localStorage[STATS_KEY]
    savedCount,             \* the saveAssessment calls so far: the clock and the source of ids
    failedWrites,           \* the localStorage.setItem calls that threw so far
    isTranscribing,         \* Transcriber.isTranscribing
    heardTranscript,        \* Transcriber.transcript: the final results so far
    heardInterim,           \* Transcriber.interimTranscript
    recognition,            \* the browser's SpeechRecognition: its phase, a start event owed
    completeHandler,        \* whether Transcriber.onTranscriptComplete is set
    session,                \* start() and stop() calls, fatal errors: what the session went through
    lastCall,               \* the last Transcriber method or handler that ran, and what it did
    app,                    \* SpeakProApp: isRecording, mediaStream, mediaRecorder, audioChunks, ...
    ui,                     \* UIController: currentFile, currentMode, currentTranscription, the topic
    media,                  \* the browser: getUserMedia requests pending, the streams and recorders made
    speech,                 \* the Transcriber as the application sees it: running, its transcript
    analysed,               \* the file and the transcript the last startAnalysis went on with
    brain,                  \* localStorage[BRAIN_KEY]: the stored brain
    learned                 \* the learnFromSession calls so far

vars == <<pc, scores, keyOrder, overallScore, level,
          audioFeatures, topic, transcriptionAnalysis, assessment, calls,
          text, textAnalysis, wordList, advancedFound, audioBuffer, extraction,
          analyzedDuration, detectedPauses, estimatedRate,
          storedAssessments, storedAudio, storedStats, savedCount, failedWrites,
          isTranscribing, heardTranscript, heardInterim, recognition,
          completeHandler, session, lastCall,
          app, ui, media, speech, analysed, brain, learned>>

overallVars == <<scores, keyOrder, overallScore, level>>

scoringVars == <<audioFeatures, topic, transcriptionAnalysis, assessment, calls>>

transcriptVars == <<text, textAnalysis, wordList, advancedFound>>

audioVars ==
    <<audioBuffer, extraction, analyzedDuration, detectedPauses, estimatedRate>>

storageVars == <<storedAssessments, storedAudio, storedStats, savedCount, failedWrites>>

sessionVars ==
    <<isTranscribing, heardTranscript, heardInterim, recognition,
      completeHandler, session, lastCall>>

recorderVars == <<app, ui, media, speech, analysed>>

brainVars == <<brain, learned>>

appVars == <<storageVars, sessionVars, recorderVars, brainVars>>

NULL == "null"

\* the parts of the state an operation under analysis does not use
NoOverall == scores = NULL /\ keyOrder = NULL /\ overallScore = NULL /\ level = NULL

NoScoring ==
    /\ audioFeatures = NULL /\ topic = NULL
    /\ transcriptionAnalysis = NULL /\ assessment = NULL
    /\ calls = <<>>

NoWords == wordList = NULL /\ advancedFound = NULL

NoTranscriber == text = NULL /\ textAnalysis = NULL /\ NoWords

NoStorage ==
    /\ storedAssessments = NULL /\ storedAudio = NULL /\ storedStats = NULL
    /\ savedCount = NULL /\ failedWrites = NULL

NoSession ==
    /\ isTranscribing = NULL /\ heardTranscript = NULL /\ heardInterim = NULL
    /\ recognition = NULL /\ completeHandler = NULL
    /\ session = NULL /\ lastCall = NULL

NoRecorder ==
    /\ app = NULL /\ ui = NULL /\ media = NULL /\ speech = NULL /\ analysed = NULL

NoBrain == brain = NULL /\ learned = NULL

NoApp == NoStorage /\ NoSession /\ NoRecorder /\ NoBrain

NoAudio ==
    /\ audioBuffer = NULL /\ extraction = NULL
    /\ analyzedDuration = NULL /\ detectedPauses = NULL /\ estimatedRate = NULL

(***************************************************************************)
(* IEEE-754 double arithmetic, as far as calculateOverallScore needs it.   *)
(* A non-negative double below 128 is held exactly as an integer count of  *)
(* 2^-60, in five limbs of 15 bits, least significant first.  Every        *)
(* operation computes the exact result and rounds it to 53 significant     *)
(* bits, ties to even, which is what JavaScript's * and + do.              *)
(***************************************************************************)
Base == 2^15

FZero == <<0, 0, 0, 0, 0>>

FromInt(n) == <<0, 0, 0, 0, n>>

Carry(x) ==
    LET l1 == x[1]
        l2 == x[2] + (l1 \div Base)
        l3 == x[3] + (l2 \div Base)
        l4 == x[4] + (l3 \div Base)
        l5 == x[5] + (l4 \div Base)
    IN  <<l1 % Base, l2 % Base, l3 % Base, l4 % Base, l5>>

Log2(n) == CHOOSE k \in 0..14 : 2^k <= n /\ n < 2^(k+1)

\* weight of the last of the 53 significant bits of x, in units of 2^-60
Ulp(x) ==
    IF x[5] > 0 THEN 2^(8 + Log2(x[5]))
    ELSE IF x[4] >= 2^8 THEN 2^(Log2(x[4]) - 7)
    ELSE 1

RoundToDouble(x) ==
    LET g    == Ulp(x)
        r    == x[1] % g
        down == [x EXCEPT ![1] = x[1] - r]
        odd  == (x[1] \div g) % 2 = 1
        up   == r * 2 > g \/ (r * 2 = g /\ odd)
    IN  IF r = 0 THEN x
        ELSE IF up THEN Carry([down EXCEPT ![1] = @ + g])
        ELSE down

\* n * w for an integer n in 0..100 and a double w
FMul(n, w) == RoundToDouble(Carry([i \in 1..5 |-> w[i] * n]))

FAdd(x, y) == RoundToDouble(Carry([i \in 1..5 |-> x[i] + y[i]]))

\* Math.min(100, Math.max(0, x)); x is never negative here
Clamp100(x) == IF x[5] >= 100 THEN FromInt(100) ELSE x

\* Math.round: the nearest integer, halves upwards
MathRound(x) == x[5] + (IF x[4] >= 2^14 THEN 1 ELSE 0)

(***************************************************************************)
(* AIAnalyzer: configuration                                               *)
(***************************************************************************)
Levels == <<"A1", "A2", "B1", "B2", "C1", "C2">>

levelThresholds ==
    [A1 |-> [min |-> 0,  max |-> 28],
     A2 |-> [min |-> 28, max |-> 42],
     B1 |-> [min |-> 42, max |-> 58],
     B2 |-> [min |-> 58, max |-> 73],
     C1 |-> [min |-> 73, max |-> 87],
     C2 |-> [min |-> 87, max |-> 100]]

\* the doubles nearest to 0.22, 0.22, 0.18, 0.15, 0.13 and 0.10
weights ==
    [pronunciation |-> <<1312, 9175, 31457, 7208, 0>>,
     fluency       |-> <<1312, 9175, 31457, 7208, 0>>,
     vocabulary    |-> <<24896, 10485, 7864, 5898, 0>>,
     grammar       |-> <<26208, 19660, 6553, 4915, 0>>,
     coherence     |-> <<5248, 3932, 27525, 4259, 0>>,
     time          |-> <<6560, 13107, 26214, 3276, 0>>]

\* the double nearest to 0.1, the fallback of `this.weights[key] || 0.1`
DefaultWeight == <<6560, 13107, 26214, 3276, 0>>

\* insertion order of the object literal analyzeFullSpeaking passes in
SourceKeys == <<"pronunciation", "fluency", "vocabulary", "grammar", "coherence", "time">>

Skills == {SourceKeys[i] : i \in 1..Len(SourceKeys)}

(***************************************************************************)
(* AIAnalyzer.calculateOverallScore and AIAnalyzer.determineLevel          *)
(***************************************************************************)
WeightOf(key) == IF key \in DOMAIN weights THEN weights[key] ELSE DefaultWeight

RECURSIVE TotalScore(_, _, _)
TotalScore(sc, keys, n) ==
    IF n = 0 THEN FZero
    ELSE FAdd(TotalScore(sc, keys, n - 1), FMul(sc[keys[n]], WeightOf(keys[n])))

calculateOverallScore(sc, keys) ==
    MathRound(Clamp100(TotalScore(sc, keys, Len(keys))))

RECURSIVE LevelFrom(_, _)
LevelFrom(s, i) ==
    IF i > Len(Levels) THEN "C2"
    ELSE IF s >= levelThresholds[Levels[i]].min /\ s < levelThresholds[Levels[i]].max
         THEN Levels[i]
         ELSE LevelFrom(s, i + 1)

\* determineLevel with each band closed at its upper end
determineLevelInclusiveMax(s) ==
    LET hits == {i \in 1..Len(Levels) :
                    /\ s >= levelThresholds[Levels[i]].min
                    /\ s <= levelThresholds[Levels[i]].max}
    IN  IF hits = {} THEN "C2"
        ELSE Levels[CHOOSE i \in hits : \A j \in hits : i <= j]

determineLevel(s) == LevelFrom(s, 1)

(***************************************************************************)
(* JavaScript values                                                       *)
(*   - a number that may fail to be finite, and a number printed by        *)
(*     toFixed, is a record: a finite one holds an integer count of its    *)
(*     last decimal place;                                                 *)
(*   - durations are in hundredths of a second, ratios in thousandths.     *)
(***************************************************************************)
Num(n) == [k |-> "finite", v |-> n]

NaN == [k |-> "NaN", v |-> 0]

PosInfinity == [k |-> "Infinity", v |-> 0]

NegInfinity == [k |-> "-Infinity", v |-> 0]

\* x.toFixed(d) of a finite x, as a count of 10^-d
Fixed(n) == [k |-> "finite", v |-> n]

\* NaN.toFixed(d)
NaNText == [k |-> "NaN", v |-> 0]

\* parseFloat(x) || 0
ParseFloatOr0(x) == IF x.k = "NaN" THEN 0 ELSE x.v

\* x || d for a number x
JsOr(x, d) == IF x = 0 THEN d ELSE x

\* a score left as computed
NoClamp(x) == x

Clamp0to100(x) == IF x < 0 THEN 0 ELSE IF x > 100 THEN 100 ELSE x

Range(seq) == {seq[i] : i \in 1..Len(seq)}

Front(seq) == SubSeq(seq, 1, Len(seq) - 1)

Last(seq) == seq[Len(seq)]

RECURSIVE Reverse(_)
Reverse(seq) == IF seq = <<>> THEN <<>> ELSE Append(Reverse(Tail(seq)), Head(seq))

RECURSIVE MapSeqInsert(_, _, _)
MapSeqInsert(sorted, e, key) ==
    IF sorted = <<>> THEN <<e>>
    ELSE IF key[Last(sorted)] <= key[e] THEN Append(sorted, e)
    ELSE Append(MapSeqInsert(Front(sorted), e, key), Last(sorted))

\* Array.prototype.sort((a, b) => key[a] - key[b]): ascending and stable
RECURSIVE SortBy(_, _)
SortBy(seq, key) ==
    IF seq = <<>> THEN <<>>
    ELSE MapSeqInsert(SortBy(Front(seq), key), Last(seq), key)

\* Array.prototype.slice(0, n)
SliceFirst(seq, n) == SubSeq(seq, 1, IF Len(seq) < n THEN Len(seq) ELSE n)

\* Array.prototype.slice(-n)
SliceLast(seq, n) == SubSeq(seq, IF Len(seq) > n THEN Len(seq) - n + 1 ELSE 1, Len(seq))

\* obj.f used as a condition: a missing property is undefined, which is falsy
Flag(obj, f) == f \in DOMAIN obj /\ obj[f]

\* transcriptionAnalysis = null
NoTranscript == [present |-> FALSE]

(***************************************************************************)
(* AIAnalyzer: the six skill analyses                                      *)
(***************************************************************************)
analyzePronunciation(features, transcription) ==
    LET clarity  == JsOr(features.clarity, 50)
        pitchVar == ParseFloatOr0(features.pitchVariation)
        s1 == 50 + (IF clarity >= 80 THEN 25
                    ELSE IF clarity >= 60 THEN 15
                    ELSE IF clarity >= 40 THEN 5
                    ELSE -10)
        s2 == s1 + (IF pitchVar >= 250 /\ pitchVar <= 550 THEN 15
                    ELSE IF pitchVar < 150 THEN -12
                    ELSE IF pitchVar > 700 THEN -5
                    ELSE 8)
        s3 == s2 + (IF features.volumeConsistency >= 600 THEN 10
                    ELSE IF features.volumeConsistency < 300 THEN -5
                    ELSE 0)
        s4 == s3 + (IF /\ transcription.present
                       /\ transcription.wordCount > 0
                       /\ ParseFloatOr0(transcription.avgWordLength) >= 45
                    THEN 5 ELSE 0)
    IN  [score |-> Clamp0to100(s4)]

\* pauseDuration / duration < pct / 100, with `duration > 0 ? ... : 0`
PauseRatioBelow(pauseDuration, duration, pct) ==
    IF duration > 0 THEN pauseDuration * 100 < pct * duration ELSE 0 < pct

\* analyzeFluency taking 30 points, not 15, for a filler ratio above 8 %
analyzeFluencyFillersTwice(features, transcription) ==
    LET duration      == JsOr(features.duration, 0)
        pauseCount    == JsOr(features.totalPauses, 0)
        pauseDuration == JsOr(features.pauseDuration, 0)
        speechRate    == JsOr(features.speechRate, 100)
        fillerRatio   == ParseFloatOr0(transcription.fillerRatio)
        s1 == 50 + (IF /\ PauseRatioBelow(pauseDuration, duration, 15)
                       /\ pauseCount >= 3 /\ pauseCount <= 12 THEN 28
                    ELSE IF PauseRatioBelow(pauseDuration, duration, 25) /\ pauseCount <= 18 THEN 18
                    ELSE IF PauseRatioBelow(pauseDuration, duration, 35) THEN 8
                    ELSE -10)
        s2 == s1 + (IF speechRate >= 110 /\ speechRate <= 150 THEN 18
                    ELSE IF speechRate >= 90 /\ speechRate < 110 THEN 10
                    ELSE IF speechRate > 150 /\ speechRate <= 170 THEN 10
                    ELSE IF speechRate < 90 THEN -5
                    ELSE -10)
        s3 == s2 + (IF ~transcription.present THEN 0
                    ELSE IF fillerRatio > 80 THEN -30
                    ELSE IF fillerRatio > 40 THEN -8
                    ELSE IF fillerRatio <= 20 THEN 5
                    ELSE 0)
    IN  [score |-> Clamp0to100(s3)]

analyzeFluency(features, transcription) ==
    LET duration      == JsOr(features.duration, 0)
        pauseCount    == JsOr(features.totalPauses, 0)
        pauseDuration == JsOr(features.pauseDuration, 0)
        speechRate    == JsOr(features.speechRate, 100)
        fillerRatio   == ParseFloatOr0(transcription.fillerRatio)
        s1 == 50 + (IF /\ PauseRatioBelow(pauseDuration, duration, 15)
                       /\ pauseCount >= 3 /\ pauseCount <= 12 THEN 28
                    ELSE IF PauseRatioBelow(pauseDuration, duration, 25) /\ pauseCount <= 18 THEN 18
                    ELSE IF PauseRatioBelow(pauseDuration, duration, 35) THEN 8
                    ELSE -10)
        s2 == s1 + (IF speechRate >= 110 /\ speechRate <= 150 THEN 18
                    ELSE IF speechRate >= 90 /\ speechRate < 110 THEN 10
                    ELSE IF speechRate > 150 /\ speechRate <= 170 THEN 10
                    ELSE IF speechRate < 90 THEN -5
                    ELSE -10)
        s3 == s2 + (IF ~transcription.present THEN 0
                    ELSE IF fillerRatio > 80 THEN -15
                    ELSE IF fillerRatio > 40 THEN -8
                    ELSE IF fillerRatio <= 20 THEN 5
                    ELSE 0)
    IN  [score |-> Clamp0to100(s3)]

\* analyzeVocabulary reading the transcript whenever there is one, also when
\* it has no word
analyzeVocabularyAnyTranscript(features, topicId, transcription) ==
    LET wordCount  == transcription.wordCount
        richness   == ParseFloatOr0(transcription.vocabularyRichness)
        duration   == JsOr(features.duration, 0)
        speechRate == JsOr(features.speechRate, 100)
        estimatedWords ==
            (2 * (duration - JsOr(features.pauseDuration, 0)) * speechRate + 6000) \div 12000
        fromTranscript ==
            45 + (IF wordCount >= 150 THEN 20 ELSE IF wordCount >= 80 THEN 12 ELSE 5)
               + (IF richness >= 650 THEN 18 ELSE IF richness >= 450 THEN 12 ELSE 5)
               + (IF transcription.advancedWordCount >= 5 THEN 15
                  ELSE IF transcription.advancedWordCount >= 2 THEN 8
                  ELSE 0)
        fromAudio ==
            45 + (IF estimatedWords >= 150 THEN 25 ELSE IF estimatedWords >= 80 THEN 15 ELSE 0)
        s1 == IF transcription.present THEN fromTranscript ELSE fromAudio
        s2 == s1 + (IF topicId # "" /\ topicId # "custom" THEN 5 ELSE 0)
    IN  [score |-> Clamp0to100(s2)]

analyzeVocabulary(features, topicId, transcription) ==
    LET wordCount  == transcription.wordCount
        richness   == ParseFloatOr0(transcription.vocabularyRichness)
        duration   == JsOr(features.duration, 0)
        speechRate == JsOr(features.speechRate, 100)
        \* Math.round((duration - pauseDuration) * (speechRate / 60))
        estimatedWords ==
            (2 * (duration - JsOr(features.pauseDuration, 0)) * speechRate + 6000) \div 12000
        fromTranscript ==
            45 + (IF wordCount >= 150 THEN 20 ELSE IF wordCount >= 80 THEN 12 ELSE 5)
               + (IF richness >= 650 THEN 18 ELSE IF richness >= 450 THEN 12 ELSE 5)
               + (IF transcription.advancedWordCount >= 5 THEN 15
                  ELSE IF transcription.advancedWordCount >= 2 THEN 8
                  ELSE 0)
        fromAudio ==
            45 + (IF estimatedWords >= 150 THEN 25 ELSE IF estimatedWords >= 80 THEN 15 ELSE 0)
        s1 == IF transcription.present /\ transcription.wordCount > 0
              THEN fromTranscript ELSE fromAudio
        s2 == s1 + (IF topicId # "" /\ topicId # "custom" THEN 5 ELSE 0)
    IN  [score |-> Clamp0to100(s2)]

analyzeGrammar(features, transcription) ==
    LET gi == transcription.grammarIndicators
        avgWords == ParseFloatOr0(transcription.avgWordsPerSentence)
        s1 == 50 + (IF features.volumeConsistency >= 600 /\ features.speechRate >= 100 THEN 15
                    ELSE IF features.volumeConsistency >= 400 THEN 8
                    ELSE 0)
        s2 == s1 + (IF ~transcription.present THEN 0
                    ELSE (IF Flag(gi, "hasComplexSentences") THEN 12 ELSE 0)
                       + (IF Flag(gi, "hasConditionals") THEN 8 ELSE 0)
                       + (IF Flag(gi, "hasPerfectTenses") THEN 8 ELSE 0)
                       + (IF Flag(gi, "hasPassiveVoice") THEN 5 ELSE 0)
                       + (IF avgWords >= 120 THEN 8 ELSE 0))
        s3 == s2 + (IF features.clarity >= 70 THEN 8 ELSE 0)
    IN  [score |-> Clamp0to100(s3)]

analyzeCoherence(features, transcription) ==
    LET pauseScore == JsOr(features.pauseScore, 50)
        pitchVar   == ParseFloatOr0(features.pitchVariation)
        ci         == transcription.coherenceIndicators
        duration   == JsOr(features.duration, 0)
        s1 == 45 + (IF pauseScore >= 85 THEN 20 ELSE IF pauseScore >= 70 THEN 15 ELSE 5)
        s2 == s1 + (IF pitchVar >= 200 /\ pitchVar <= 500 THEN 12 ELSE 0)
        s3 == s2 + (IF ~transcription.present THEN 0
                    ELSE (IF Flag(ci, "hasIntroduction") THEN 10 ELSE 0)
                       + (IF Flag(ci, "hasConclusion") THEN 10 ELSE 0)
                       + (IF Flag(ci, "hasTransitionWords") /\ Len(ci.transitionWordsUsed) > 0
                          THEN Len(ci.transitionWordsUsed) * 3 ELSE 0))
        s4 == s3 + (IF duration >= 6000 /\ duration <= 18000 THEN 5
                    ELSE IF duration < 3000 THEN -10
                    ELSE 0)
    IN  [score |-> Clamp0to100(s4)]

\* analyzeTimeManagement with the bands of the extractor's durationScore
analyzeTimeManagementExtractorBands(features) ==
    LET duration == JsOr(features.duration, 0)
    IN  [score |-> IF duration < 3000 THEN 40
                   ELSE IF duration < 6000 THEN 60
                   ELSE IF duration <= 18000 THEN 95
                   ELSE IF duration <= 24000 THEN 85
                   ELSE 70]

analyzeTimeManagement(features) ==
    LET duration == JsOr(features.duration, 0)
    IN  [score |-> IF duration < 3000 THEN 30
                   ELSE IF duration < 6000 THEN 55
                   ELSE IF duration <= 15000 THEN 95
                   ELSE IF duration <= 21000 THEN 82
                   ELSE 65]

(***************************************************************************)
(* AIAnalyzer: feedback generation                                         *)
(***************************************************************************)
\* name.charAt(0).toUpperCase() + name.slice(1), also the names of skillMap
Capitalized ==
    [pronunciation |-> "Pronunciation", fluency |-> "Fluency", vocabulary |-> "Vocabulary",
     grammar |-> "Grammar", coherence |-> "Coherence", time |-> "Time"]

\* the keys of identifyErrors' skillMap
skillMap == {"pronunciation", "fluency", "vocabulary", "grammar", "coherence"}

SeverityOrder == [high |-> 0, medium |-> 1, low |-> 2]

\* identifyErrors without its final sort
identifyErrorsUnsorted(analyses) ==
    LET failing == SelectSeq(analyses, LAMBDA a : a.score < 58 /\ a.name \in skillMap)
    IN  [i \in 1..Len(failing) |->
            [type     |-> Capitalized[failing[i].name],
             severity |-> IF failing[i].score < 40 THEN "high"
                          ELSE IF failing[i].score < 50 THEN "medium"
                          ELSE "low"]]

\* analyses: the entries of the object passed in, in insertion order
identifyErrors(analyses) ==
    LET failing == SelectSeq(analyses, LAMBDA a : a.score < 58 /\ a.name \in skillMap)
        errors  == [i \in 1..Len(failing) |->
                       [type     |-> Capitalized[failing[i].name],
                        severity |-> IF failing[i].score < 40 THEN "high"
                                     ELSE IF failing[i].score < 50 THEN "medium"
                                     ELSE "low"]]
    IN  SortBy(errors, [e \in Range(errors) |-> SeverityOrder[e.severity]])

\* identifyStrengthsWeaknesses without the reversal of the weaknesses
identifyStrengthsWeaknessesBestFirst(analyses) ==
    LET skills == [i \in 1..Len(analyses) |->
                      [name |-> Capitalized[analyses[i].name], score |-> analyses[i].score]]
        sorted == SortBy(skills, [e \in Range(skills) |-> 0 - e.score])
    IN  [strengths  |-> SliceFirst(SelectSeq(sorted, LAMBDA e : e.score >= 65), 3),
         weaknesses |-> SliceLast(SelectSeq(sorted, LAMBDA e : e.score < 58), 3)]

identifyStrengthsWeaknesses(analyses) ==
    LET skills == [i \in 1..Len(analyses) |->
                      [name |-> Capitalized[analyses[i].name], score |-> analyses[i].score]]
        sorted == SortBy(skills, [e \in Range(skills) |-> 0 - e.score])
    IN  [strengths  |-> SliceFirst(SelectSeq(sorted, LAMBDA e : e.score >= 65), 3),
         weaknesses |-> Reverse(SliceLast(SelectSeq(sorted, LAMBDA e : e.score < 58), 3))]

RecommendationTitle ==
    [pronunciation |-> "Improve Pronunciation", fluency |-> "Improve Fluency",
     vocabulary |-> "Expand Vocabulary", grammar |-> "Strengthen Grammar",
     coherence |-> "Improve Organization"]

getSkillRecommendation(skill, score) ==
    [priority |-> IF score < 50 THEN "high" ELSE "medium",
     category |-> Capitalized[skill],
     title    |-> RecommendationTitle[skill]]

\* generateRecommendations with a recommendation for the weakest skill whatever
\* its score
generateRecommendationsWeakestAlways(analyses, lvl, transcription) ==
    LET skills == SortBy(analyses, [e \in Range(analyses) |-> e.score])
        r1 == <<getSkillRecommendation(skills[1].name, skills[1].score)>>
        r2 == IF skills[2].score < 60
              THEN <<getSkillRecommendation(skills[2].name, skills[2].score)>> ELSE <<>>
        r3 == IF transcription.present /\ transcription.fillerWordCount > 5
              THEN <<[priority |-> "high", category |-> "Fluency",
                      title |-> "Reduce Filler Words"]>> ELSE <<>>
        r4 == IF lvl = "A1" \/ lvl = "A2"
              THEN <<[priority |-> "high", category |-> "Foundation",
                      title |-> "Build Strong Foundation"]>> ELSE <<>>
    IN  SliceFirst(r1 \o r2 \o r3 \o r4, 4)

\* analyses: pronunciation, fluency, vocabulary, grammar, coherence in that order
generateRecommendations(analyses, lvl, transcription) ==
    LET skills == SortBy(analyses, [e \in Range(analyses) |-> e.score])
        r1 == IF skills[1].score < 65
              THEN <<getSkillRecommendation(skills[1].name, skills[1].score)>> ELSE <<>>
        r2 == IF skills[2].score < 60
              THEN <<getSkillRecommendation(skills[2].name, skills[2].score)>> ELSE <<>>
        r3 == IF transcription.present /\ transcription.fillerWordCount > 5
              THEN <<[priority |-> "high", category |-> "Fluency",
                      title |-> "Reduce Filler Words"]>> ELSE <<>>
        r4 == IF lvl = "A1" \/ lvl = "A2"
              THEN <<[priority |-> "high", category |-> "Foundation",
                      title |-> "Build Strong Foundation"]>> ELSE <<>>
    IN  SliceFirst(r1 \o r2 \o r3 \o r4, 4)

(***************************************************************************)
(* AIAnalyzer.analyzeFullSpeaking                                          *)
(***************************************************************************)
analyzeFullSpeaking(features, topicId, transcription) ==
    LET pronunciation  == analyzePronunciation(features, transcription)
        fluency        == analyzeFluency(features, transcription)
        vocabulary     == analyzeVocabulary(features, topicId, transcription)
        grammar        == analyzeGrammar(features, transcription)
        coherence      == analyzeCoherence(features, transcription)
        timeManagement == analyzeTimeManagement(features)
        skillScores ==
            [pronunciation |-> pronunciation.score, fluency |-> fluency.score,
             vocabulary |-> vocabulary.score, grammar |-> grammar.score,
             coherence |-> coherence.score, time |-> timeManagement.score]
        overall == calculateOverallScore(skillScores, SourceKeys)
        lvl     == determineLevel(overall)
        five ==
            <<[name |-> "pronunciation", score |-> pronunciation.score],
              [name |-> "fluency",       score |-> fluency.score],
              [name |-> "vocabulary",    score |-> vocabulary.score],
              [name |-> "grammar",       score |-> grammar.score],
              [name |-> "coherence",     score |-> coherence.score]>>
        analysis == identifyStrengthsWeaknesses(five)
    IN  [level           |-> lvl,
         overallScore    |-> overall,
         scores          |-> skillScores,
         errors          |-> identifyErrors(five),
         recommendations |-> generateRecommendations(five, lvl, transcription),
         strengths       |-> analysis.strengths,
         weaknesses      |-> analysis.weaknesses,
         topic           |-> topicId,
         duration        |-> features.duration,
         transcription   |-> transcription]

(***************************************************************************)
(* Transcriber: transcript analysis.  A text is a sequence of characters.  *)
(***************************************************************************)
UpperCase ==
    <<"A", "B", "C", "D", "E", "F", "G", "H", "I", "J", "K", "L", "M",
      "N", "O", "P", "Q", "R", "S", "T", "U", "V", "W", "X", "Y", "Z">>

LowerCase ==
    <<"a", "b", "c", "d", "e", "f", "g", "h", "i", "j", "k", "l", "m",
      "n", "o", "p", "q", "r", "s", "t", "u", "v", "w", "x", "y", "z">>

DigitChars == {"0", "1", "2", "3", "4", "5", "6", "7", "8", "9"}

\* the characters \w matches; \b is the border between one of them and any other
WordChars == Range(UpperCase) \cup Range(LowerCase) \cup DigitChars \cup {"_"}

\* characters \s matches
WhiteSpace == {" ", "\n"}

LowerChar(c) ==
    IF c \in Range(UpperCase)
    THEN LowerCase[CHOOSE i \in 1..Len(UpperCase) : UpperCase[i] = c]
    ELSE c

toLowerCase(t) == [i \in 1..Len(t) |-> LowerChar(t[i])]

\* String.prototype.split on runs of separators, the empty pieces dropped
RECURSIVE SplitRuns(_, _, _, _)
SplitRuns(t, seps, i, cur) ==
    LET done == IF cur = <<>> THEN <<>> ELSE <<cur>>
    IN  IF i > Len(t) THEN done
        ELSE IF t[i] \in seps THEN done \o SplitRuns(t, seps, i + 1, <<>>)
        ELSE SplitRuns(t, seps, i + 1, Append(cur, t[i]))

\* String.prototype.includes
Includes(t, m) ==
    \E i \in 1..(Len(t) - Len(m) + 1) : \A j \in 1..Len(m) : t[i + j - 1] = m[j]

\* new RegExp(`\\b${filler}\\b`, 'gi') matches at position i of t
FillerMatchAt(t, filler, i) ==
    /\ i + Len(filler) - 1 <= Len(t)
    /\ \A j \in 1..Len(filler) : LowerChar(t[i + j - 1]) = filler[j]
    /\ (i = 1 \/ t[i - 1] \notin WordChars)
    /\ (i + Len(filler) - 1 = Len(t) \/ t[i + Len(filler)] \notin WordChars)

\* text.match(regex).length: the matches found from left to right, none overlapping
RECURSIVE CountMatches(_, _, _)
CountMatches(t, filler, i) ==
    IF i > Len(t) THEN 0
    ELSE IF FillerMatchAt(t, filler, i) THEN 1 + CountMatches(t, filler, i + Len(filler))
    ELSE CountMatches(t, filler, i + 1)

RECURSIVE SumSeq(_)
SumSeq(seq) == IF seq = <<>> THEN 0 ELSE Head(seq) + SumSeq(Tail(seq))

\* (num / den).toFixed(1), as a count of tenths; 0 / 0 is NaN
ToFixed1(num, den) ==
    IF den = 0 THEN NaNText ELSE Fixed((20 * num + den) \div (2 * den))

fillerWords ==
    << <<"u", "m">>,
      <<"u", "h">>,
      <<"l", "i", "k", "e">>,
      <<"y", "o", "u", " ", "k", "n", "o", "w">>,
      <<"b", "a", "s", "i", "c", "a", "l", "l", "y">>,
      <<"a", "c", "t", "u", "a", "l", "l", "y">>,
      <<"l", "i", "t", "e", "r", "a", "l", "l", "y">>,
      <<"s", "o">>,
      <<"w", "e", "l", "l">>,
      <<"i", " ", "m", "e", "a", "n">>,
      <<"k", "i", "n", "d", " ", "o", "f">>,
      <<"s", "o", "r", "t", " ", "o", "f">> >>

advancedWordList ==
    << <<"f", "u", "r", "t", "h", "e", "r", "m", "o", "r", "e">>,
      <<"m", "o", "r", "e", "o", "v", "e", "r">>,
      <<"n", "e", "v", "e", "r", "t", "h", "e", "l", "e", "s", "s">>,
      <<"c", "o", "n", "s", "e", "q", "u", "e", "n", "t", "l", "y">>,
      <<"s", "u", "b", "s", "e", "q", "u", "e", "n", "t", "l", "y">>,
      <<"p", "a", "r", "t", "i", "c", "u", "l", "a", "r", "l", "y">>,
      <<"s", "i", "g", "n", "i", "f", "i", "c", "a", "n", "t", "l", "y">>,
      <<"e", "s", "s", "e", "n", "t", "i", "a", "l", "l", "y">>,
      <<"p", "r", "e", "d", "o", "m", "i", "n", "a", "n", "t", "l", "y">>,
      <<"f", "u", "n", "d", "a", "m", "e", "n", "t", "a", "l", "l", "y">>,
      <<"c", "o", "m", "p", "r", "e", "h", "e", "n", "s", "i", "v", "e">>,
      <<"s", "u", "b", "s", "t", "a", "n", "t", "i", "a", "l">>,
      <<"c", "o", "n", "s", "i", "d", "e", "r", "a", "b", "l", "e">>,
      <<"r", "e", "m", "a", "r", "k", "a", "b", "l", "e">>,
      <<"e", "x", "t", "r", "a", "o", "r", "d", "i", "n", "a", "r", "y">>,
      <<"i", "m", "p", "l", "e", "m", "e", "n", "t">>,
      <<"e", "s", "t", "a", "b", "l", "i", "s", "h">>,
      <<"d", "e", "m", "o", "n", "s", "t", "r", "a", "t", "e">>,
      <<"i", "l", "l", "u", "s", "t", "r", "a", "t", "e">>,
      <<"e", "m", "p", "h", "a", "s", "i", "z", "e">>,
      <<"p", "e", "r", "s", "p", "e", "c", "t", "i", "v", "e">>,
      <<"a", "p", "p", "r", "o", "a", "c", "h">>,
      <<"a", "s", "p", "e", "c", "t">>,
      <<"f", "a", "c", "t", "o", "r">>,
      <<"i", "m", "p", "a", "c", "t">>,
      <<"e", "n", "h", "a", "n", "c", "e">>,
      <<"f", "a", "c", "i", "l", "i", "t", "a", "t", "e">>,
      <<"c", "o", "n", "t", "r", "i", "b", "u", "t", "e">>,
      <<"i", "n", "t", "e", "g", "r", "a", "t", "e">>,
      <<"a", "c", "c", "o", "m", "m", "o", "d", "a", "t", "e">>,
      <<"e", "n", "v", "i", "r", "o", "n", "m", "e", "n", "t">>,
      <<"t", "e", "c", "h", "n", "o", "l", "o", "g", "y">>,
      <<"d", "e", "v", "e", "l", "o", "p", "m", "e", "n", "t">>,
      <<"o", "p", "p", "o", "r", "t", "u", "n", "i", "t", "y">>,
      <<"e", "x", "p", "e", "r", "i", "e", "n", "c", "e">>,
      <<"s", "u", "s", "t", "a", "i", "n", "a", "b", "l", "e">>,
      <<"i", "n", "n", "o", "v", "a", "t", "i", "v", "e">>,
      <<"e", "f", "f", "i", "c", "i", "e", "n", "t">>,
      <<"e", "f", "f", "e", "c", "t", "i", "v", "e">>,
      <<"b", "e", "n", "e", "f", "i", "c", "i", "a", "l">>,
      <<"a", "n", "a", "l", "y", "z", "e">>,
      <<"e", "v", "a", "l", "u", "a", "t", "e">>,
      <<"a", "s", "s", "e", "s", "s">>,
      <<"d", "e", "t", "e", "r", "m", "i", "n", "e">>,
      <<"i", "n", "v", "e", "s", "t", "i", "g", "a", "t", "e">>,
      <<"p", "h", "e", "n", "o", "m", "e", "n", "o", "n">>,
      <<"m", "e", "t", "h", "o", "d", "o", "l", "o", "g", "y">>,
      <<"h", "y", "p", "o", "t", "h", "e", "s", "i", "s">>,
      <<"p", "a", "r", "a", "d", "i", "g", "m">>,
      <<"s", "y", "n", "t", "h", "e", "s", "i", "s">> >>

complexMarkers ==
    << <<"a", "l", "t", "h", "o", "u", "g", "h">>,
      <<"w", "h", "e", "r", "e", "a", "s">>,
      <<"w", "h", "i", "l", "e">>,
      <<"d", "e", "s", "p", "i", "t", "e">>,
      <<"u", "n", "l", "e", "s", "s">>,
      <<"p", "r", "o", "v", "i", "d", "e", "d", " ", "t", "h", "a", "t">> >>

conditionalMarkers ==
    << <<"i", "f">>,
      <<"w", "o", "u", "l", "d">>,
      <<"c", "o", "u", "l", "d">>,
      <<"m", "i", "g", "h", "t">>,
      <<"s", "h", "o", "u", "l", "d">> >>

perfectMarkers ==
    << <<"h", "a", "v", "e", " ", "b", "e", "e", "n">>,
      <<"h", "a", "s", " ", "b", "e", "e", "n">>,
      <<"h", "a", "d", " ", "b", "e", "e", "n">>,
      <<"h", "a", "v", "e", " ", "h", "a", "d">>,
      <<"h", "a", "s", " ", "h", "a", "d">> >>

passiveMarkers ==
    << <<"i", "s", " ", "d", "o", "n", "e">>,
      <<"w", "a", "s", " ", "d", "o", "n", "e">>,
      <<"b", "e", "e", "n", " ", "d", "o", "n", "e">>,
      <<"b", "e", " ", "d", "o", "n", "e">>,
      <<"i", "s", " ", "m", "a", "d", "e">>,
      <<"w", "a", "s", " ", "m", "a", "d", "e">> >>

introMarkers ==
    << <<"i", " ", "w", "o", "u", "l", "d", " ", "l", "i", "k", "e", " ", "t", "o">>,
      <<"i", " ", "w", "a", "n", "t", " ", "t", "o", " ", "t", "a", "l", "k", " ", "a", "b", "o", "u", "t">>,
      <<"l", "e", "t", " ", "m", "e">>,
      <<"f", "i", "r", "s", "t", " ", "o", "f", " ", "a", "l", "l">>,
      <<"t", "o", " ", "b", "e", "g", "i", "n", " ", "w", "i", "t", "h">>,
      <<"i", " ", "t", "h", "i", "n", "k">>,
      <<"i", "n", " ", "m", "y", " ", "o", "p", "i", "n", "i", "o", "n">> >>

conclusionMarkers ==
    << <<"i", "n", " ", "c", "o", "n", "c", "l", "u", "s", "i", "o", "n">>,
      <<"t", "o", " ", "s", "u", "m", " ", "u", "p">>,
      <<"f", "i", "n", "a", "l", "l", "y">>,
      <<"o", "v", "e", "r", "a", "l", "l">>,
      <<"t", "o", " ", "c", "o", "n", "c", "l", "u", "d", "e">>,
      <<"i", "n", " ", "s", "u", "m", "m", "a", "r", "y">>,
      <<"a", "l", "l", " ", "i", "n", " ", "a", "l", "l">> >>

transitionWords ==
    << <<"f", "i", "r", "s", "t", "l", "y">>,
      <<"s", "e", "c", "o", "n", "d", "l", "y">>,
      <<"t", "h", "i", "r", "d", "l", "y">>,
      <<"h", "o", "w", "e", "v", "e", "r">>,
      <<"t", "h", "e", "r", "e", "f", "o", "r", "e">>,
      <<"m", "o", "r", "e", "o", "v", "e", "r">>,
      <<"f", "u", "r", "t", "h", "e", "r", "m", "o", "r", "e">>,
      <<"a", "d", "d", "i", "t", "i", "o", "n", "a", "l", "l", "y">>,
      <<"n", "e", "v", "e", "r", "t", "h", "e", "l", "e", "s", "s">>,
      <<"o", "n", " ", "t", "h", "e", " ", "o", "t", "h", "e", "r", " ", "h", "a", "n", "d">>,
      <<"f", "o", "r", " ", "e", "x", "a", "m", "p", "l", "e">>,
      <<"f", "o", "r", " ", "i", "n", "s", "t", "a", "n", "c", "e">>,
      <<"a", "s", " ", "a", " ", "r", "e", "s", "u", "l", "t">>,
      <<"c", "o", "n", "s", "e", "q", "u", "e", "n", "t", "l", "y">>,
      <<"i", "n", " ", "a", "d", "d", "i", "t", "i", "o", "n">> >>

\* [...new Set(seq)]: the first occurrence of each element
RECURSIVE Dedupe(_)
Dedupe(seq) ==
    IF seq = <<>> THEN <<>>
    ELSE LET rest == Dedupe(Front(seq))
         IN  IF Last(seq) \in Range(rest) THEN rest ELSE Append(rest, Last(seq))

\* words.forEach: push the words of 8 characters or more not yet found
RECURSIVE AddLongWords(_, _, _)
AddLongWords(found, words, i) ==
    IF i > Len(words) THEN found
    ELSE IF Len(words[i]) >= 8 /\ toLowerCase(words[i]) \notin Range(found)
         THEN AddLongWords(Append(found, toLowerCase(words[i])), words, i + 1)
         ELSE AddLongWords(found, words, i + 1)

\* detectAdvancedVocabulary with the long words pushed before the curated ones
detectAdvancedVocabularyLongFirst(words) ==
    LET wordSet == {toLowerCase(words[i]) : i \in 1..Len(words)}
        curated == SelectSeq(advancedWordList, LAMBDA w : w \in wordSet)
    IN  SliceFirst(Dedupe(AddLongWords(<< >>, words, 1) \o curated), 20)

detectAdvancedVocabulary(words) ==
    LET wordSet == {toLowerCase(words[i]) : i \in 1..Len(words)}
        curated == SelectSeq(advancedWordList, LAMBDA w : w \in wordSet)
    IN  SliceFirst(Dedupe(AddLongWords(curated, words, 1)), 20)

analyzeGrammarIndicators(t) ==
    LET lower == toLowerCase(t)
        some(markers) == \E i \in 1..Len(markers) : Includes(lower, markers[i])
        conditionalCount ==
            Cardinality({i \in 1..Len(conditionalMarkers) : Includes(lower, conditionalMarkers[i])})
        complex == some(complexMarkers)
        conditionals == conditionalCount >= 2
        perfect == some(perfectMarkers)
        passive == some(passiveMarkers)
        score == 50 + (IF complex THEN 15 ELSE 0) + (IF conditionals THEN 10 ELSE 0)
                    + (IF perfect THEN 10 ELSE 0) + (IF passive THEN 5 ELSE 0)
    IN  [hasComplexSentences |-> complex, hasConditionals |-> conditionals,
         hasPerfectTenses |-> perfect, hasPassiveVoice |-> passive,
         score |-> IF score > 100 THEN 100 ELSE score]

\* analyzeCoherenceIndicators with 10 points for a conclusion
analyzeCoherenceIndicatorsConclusion10(t) ==
    LET lowerText == toLowerCase(t)
        some(markers) == \E i \in 1..Len(markers) : Includes(lowerText, markers[i])
        used == SelectSeq(transitionWords, LAMBDA tw : Includes(lowerText, tw))
        intro == some(introMarkers)
        conclusion == some(conclusionMarkers)
        score == 50 + (IF intro THEN 15 ELSE 0) + (IF conclusion THEN 10 ELSE 0)
                    + (IF Len(used) > 0 THEN Len(used) * 5 ELSE 0)
    IN  [hasIntroduction |-> intro, hasConclusion |-> conclusion,
         hasTransitionWords |-> Len(used) > 0, transitionWordsUsed |-> used,
         score |-> IF score > 100 THEN 100 ELSE score]

analyzeCoherenceIndicators(t) ==
    LET lowerText == toLowerCase(t)
        some(markers) == \E i \in 1..Len(markers) : Includes(lowerText, markers[i])
        used == SelectSeq(transitionWords, LAMBDA tw : Includes(lowerText, tw))
        intro == some(introMarkers)
        conclusion == some(conclusionMarkers)
        score == 50 + (IF intro THEN 15 ELSE 0) + (IF conclusion THEN 15 ELSE 0)
                    + (IF Len(used) > 0 THEN Len(used) * 5 ELSE 0)
    IN  [hasIntroduction |-> intro, hasConclusion |-> conclusion,
         hasTransitionWords |-> Len(used) > 0, transitionWordsUsed |-> used,
         score |-> IF score > 100 THEN 100 ELSE score]

\* Transcriber.getEmptyAnalysis()
getEmptyAnalysis ==
    [present |-> TRUE,
     wordCount |-> 0, uniqueWordCount |-> 0, vocabularyRichness |-> Fixed(0),
     sentenceCount |-> 0, avgWordsPerSentence |-> Fixed(0), avgWordLength |-> Fixed(0),
     fillerWordCount |-> 0, fillerWords |-> <<>>, fillerRatio |-> Fixed(0),
     advancedWords |-> <<>>, advancedWordCount |-> 0,
     grammarIndicators |-> [score |-> 50],
     coherenceIndicators |-> [score |-> 50],
     rawText |-> <<>>]

analyzeTranscript(t) ==
    IF Len(t) = 0 THEN getEmptyAnalysis
    ELSE
    LET words     == SplitRuns(toLowerCase(t), WhiteSpace, 1, <<>>)
        sentences == SelectSeq(SplitRuns(t, {".", "!", "?"}, 1, <<>>),
                               LAMBDA x : \E i \in 1..Len(x) : x[i] \notin WhiteSpace)
        wordCount == Len(words)
        uniqueWordCount == Cardinality(Range(words))
        matches == [i \in 1..Len(fillerWords) |-> CountMatches(t, fillerWords[i], 1)]
        fillerWordMap ==
            [f \in {fillerWords[i] : i \in {k \in 1..Len(fillerWords) : matches[k] > 0}} |->
                matches[CHOOSE i \in 1..Len(fillerWords) : fillerWords[i] = f]]
        fillerCount == SumSeq(matches)
        advancedWords == detectAdvancedVocabulary(words)
    IN  [present |-> TRUE,
         wordCount |-> wordCount,
         uniqueWordCount |-> uniqueWordCount,
         vocabularyRichness |-> ToFixed1(100 * uniqueWordCount, wordCount),
         sentenceCount |-> Len(sentences),
         avgWordsPerSentence |-> IF Len(sentences) > 0
                                 THEN ToFixed1(wordCount, Len(sentences)) ELSE Fixed(0),
         avgWordLength |-> ToFixed1(SumSeq([i \in 1..Len(words) |-> Len(words[i])]), Len(words)),
         fillerWordCount |-> fillerCount,
         fillerWords |-> fillerWordMap,
         fillerRatio |-> ToFixed1(100 * fillerCount, wordCount),
         advancedWords |-> advancedWords,
         advancedWordCount |-> Len(advancedWords),
         grammarIndicators |-> analyzeGrammarIndicators(t),
         coherenceIndicators |-> analyzeCoherenceIndicators(t),
         rawText |-> t]

(***************************************************************************)
(* analyzeTranscript applied to texts                                      *)
(***************************************************************************)
\* the scenario transcript of the design's testable properties
ScenarioText ==
       <<"F", "i", "r", "s", "t", "l", "y", ",", " ", "h", "o", "w", "e", "v">>
    \o <<"e", "r", ",", " ", "I", " ", "w", "o", "u", "l", "d", " ", "l", "i">>
    \o <<"k", "e", " ", "t", "o", " ", "t", "a", "l", "k", " ", "a", "b", "o">>
    \o <<"u", "t", " ", "m", "y", " ", "j", "o", "b", ".", " ", "I", "n", " ">>
    \o <<"c", "o", "n", "c", "l", "u", "s", "i", "o", "n", ",", " ", "i", "t">>
    \o <<" ", "w", "a", "s", " ", "g", "r", "e", "a", "t", ".">>

\* what the sample texts are put together from
Pieces == {<<"u", "m">>, <<"y", "o", "u">>, <<"k", "n", "o", "w">>, <<" ">>, <<",">>, <<".">>}

MaxPieces == 4

RECURSIVE Concat(_)
Concat(ps) == IF ps = <<>> THEN <<>> ELSE Head(ps) \o Concat(Tail(ps))

SampleTexts ==
    {Concat(ps) : ps \in UNION {[1..n -> Pieces] : n \in 0..MaxPieces}} \cup {ScenarioText}

InitTranscript ==
    /\ pc = "analyzeTranscript"
    /\ text \in SampleTexts
    /\ textAnalysis = NULL
    /\ NoWords /\ NoOverall /\ NoScoring /\ NoAudio /\ NoApp

AnalyzeTranscript ==
    /\ pc = "analyzeTranscript"
    /\ textAnalysis' = analyzeTranscript(text)
    /\ pc' = "done"
    /\ UNCHANGED <<text, wordList, advancedFound, overallVars, scoringVars, audioVars>>
    /\ UNCHANGED appVars

NextTranscript == AnalyzeTranscript

SpecTranscript == InitTranscript /\ [][NextTranscript]_vars

\* C8: vocabularyRichness and fillerRatio are 0 whenever the reported wordCount is 0,
\* for every text, a text of white space only included.
C8_ZeroWhenNoWords ==
    pc = "done" /\ textAnalysis.wordCount = 0 =>
        /\ textAnalysis.vocabularyRichness = Fixed(0)
        /\ textAnalysis.fillerRatio = Fixed(0)

\* C9: the filler matches never outnumber the white-space separated tokens, so
\* fillerRatio = 100 x fillerWordCount / wordCount lies in [0,100].
C9_FillerRatioInRange ==
    pc = "done" =>
        /\ textAnalysis.fillerWordCount <= textAnalysis.wordCount
        /\ (textAnalysis.fillerRatio.k = "finite" => textAnalysis.fillerRatio.v \in 0..1000)

\* C17: for every non-empty transcript uniqueWordCount <= wordCount, and
\* vocabularyRichness = 100 x uniqueWordCount / wordCount lies in [0,100].
C17_RichnessInRange ==
    pc = "done" /\ Len(text) > 0 =>
        /\ textAnalysis.uniqueWordCount <= textAnalysis.wordCount
        /\ textAnalysis.vocabularyRichness.k = "finite"
        /\ textAnalysis.vocabularyRichness.v \in 0..1000

\* C10 as stated: the scenario transcript has an introduction, a conclusion, the
\* transition words firstly and however, and a coherence indicator score of 95.
C10_Original ==
    pc = "done" /\ text = ScenarioText =>
        LET ci == textAnalysis.coherenceIndicators
        IN  /\ ci.hasIntroduction /\ ci.hasConclusion
            /\ {<<"f", "i", "r", "s", "t", "l", "y">>, <<"h", "o", "w", "e", "v", "e", "r">>}
                   \subseteq Range(ci.transitionWordsUsed)
            /\ ci.score = 95

\* C10: the scenario transcript has an introduction, a conclusion, exactly the
\* transition words firstly and however, and a coherence indicator score of
\* 50 + 15 + 15 + 5 x 2 = 90.
C10_ScenarioCoherence ==
    pc = "done" /\ text = ScenarioText =>
        LET ci == textAnalysis.coherenceIndicators
        IN  /\ ci.hasIntroduction /\ ci.hasConclusion
            /\ ci.transitionWordsUsed =
                   << <<"f", "i", "r", "s", "t", "l", "y">>, <<"h", "o", "w", "e", "v", "e", "r">> >>
            /\ ci.score = 90

C10_Witness ==
    /\ pc = "done"
    /\ textAnalysis.rawText = ScenarioText
    /\ textAnalysis.coherenceIndicators.hasTransitionWords

(***************************************************************************)
(* The scoring engine applied to FeatureSets, transcript analyses, topics  *)
(***************************************************************************)
\* FeatureSet fields the scoring engine reads, one value or more in each of its bands
FeatureSets ==
    [duration          : {2500, 4500, 9000, 20000, 24000},
     clarity           : {30, 50, 65, 90},
     pitchVariation    : {Fixed(100), Fixed(400), Fixed(800)},
     volumeConsistency : {200, 500, 800},
     totalPauses       : {0, 4, 20},
     pauseDuration     : {0, 800, 2000},
     pauseScore        : {60, 95},
     speechRate        : {80, 100, 130, 200}]

Topics == {"custom", "work"}

\* TranscriptAnalysis values of a long fluent answer, a short hesitant one, one in
\* between that uses every transition word, and of a transcript of blanks only
SampleAnalyses ==
    {[present |-> TRUE,
      wordCount |-> 160, uniqueWordCount |-> 112, vocabularyRichness |-> Fixed(700),
      avgWordsPerSentence |-> Fixed(140), avgWordLength |-> Fixed(48),
      fillerWordCount |-> 2, fillerRatio |-> Fixed(13), advancedWordCount |-> 6,
      grammarIndicators |-> [hasComplexSentences |-> TRUE, hasConditionals |-> TRUE,
                             hasPerfectTenses |-> TRUE, hasPassiveVoice |-> TRUE, score |-> 90],
      coherenceIndicators |-> [hasIntroduction |-> TRUE, hasConclusion |-> TRUE,
                               hasTransitionWords |-> TRUE,
                               transitionWordsUsed |-> SubSeq(transitionWords, 1, 3),
                               score |-> 95]],
     [present |-> TRUE,
      wordCount |-> 40, uniqueWordCount |-> 16, vocabularyRichness |-> Fixed(400),
      avgWordsPerSentence |-> Fixed(50), avgWordLength |-> Fixed(39),
      fillerWordCount |-> 6, fillerRatio |-> Fixed(150), advancedWordCount |-> 1,
      grammarIndicators |-> [hasComplexSentences |-> FALSE, hasConditionals |-> FALSE,
                             hasPerfectTenses |-> FALSE, hasPassiveVoice |-> FALSE, score |-> 50],
      coherenceIndicators |-> [hasIntroduction |-> FALSE, hasConclusion |-> FALSE,
                               hasTransitionWords |-> FALSE,
                               transitionWordsUsed |-> <<>>, score |-> 50]],
     [present |-> TRUE,
      wordCount |-> 90, uniqueWordCount |-> 45, vocabularyRichness |-> Fixed(500),
      avgWordsPerSentence |-> Fixed(90), avgWordLength |-> Fixed(42),
      fillerWordCount |-> 4, fillerRatio |-> Fixed(44), advancedWordCount |-> 3,
      grammarIndicators |-> [hasComplexSentences |-> TRUE, hasConditionals |-> TRUE,
                             hasPerfectTenses |-> FALSE, hasPassiveVoice |-> FALSE, score |-> 75],
      coherenceIndicators |-> [hasIntroduction |-> FALSE, hasConclusion |-> TRUE,
                               hasTransitionWords |-> TRUE,
                               transitionWordsUsed |-> transitionWords, score |-> 100]],
     [present |-> TRUE,
      wordCount |-> 0, uniqueWordCount |-> 0, vocabularyRichness |-> NaNText,
      avgWordsPerSentence |-> Fixed(0), avgWordLength |-> NaNText,
      fillerWordCount |-> 0, fillerRatio |-> NaNText, advancedWordCount |-> 0,
      grammarIndicators |-> [hasComplexSentences |-> FALSE, hasConditionals |-> FALSE,
                             hasPerfectTenses |-> FALSE, hasPassiveVoice |-> FALSE, score |-> 50],
      coherenceIndicators |-> [hasIntroduction |-> FALSE, hasConclusion |-> FALSE,
                               hasTransitionWords |-> FALSE,
                               transitionWordsUsed |-> <<>>, score |-> 50]]}

Init ==
    /\ pc = "analyzeFullSpeaking"
    /\ audioFeatures \in FeatureSets
    /\ topic \in Topics
    /\ transcriptionAnalysis \in SampleAnalyses \cup {getEmptyAnalysis, NoTranscript}
    /\ assessment = NULL
    /\ calls = <<>>
    /\ NoOverall /\ NoTranscriber /\ NoAudio /\ NoApp

AnalyzeFullSpeaking ==
    /\ pc = "analyzeFullSpeaking"
    /\ assessment' = analyzeFullSpeaking(audioFeatures, topic, transcriptionAnalysis)
    /\ pc' = "done"
    /\ UNCHANGED <<audioFeatures, topic, transcriptionAnalysis, calls>>
    /\ UNCHANGED <<overallVars, transcriptVars, audioVars>>
    /\ UNCHANGED appVars

Next == AnalyzeFullSpeaking

Spec == Init /\ [][Next]_vars

\* the least score each skill analysis gives, fluency as a claim states it
ClaimedMinima ==
    [pronunciation |-> 23, fluency |-> 25, vocabulary |-> 45,
     grammar |-> 50, coherence |-> 40, time |-> 30]

\* C27 as stated: the overall score is at least 34 and the skill scores are
\* at least 23, 25, 45, 50, 40 and 30, so that A1 is never assigned.
C27_Original ==
    pc = "done" =>
        /\ assessment.overallScore >= 34
        /\ assessment.level # "A1"
        /\ \A k \in Skills : assessment.scores[k] >= ClaimedMinima[k]

\* C27: for every FeatureSet, transcript analysis (or none) and topic, the
\* overall score is at least 34, level A1 is never assigned and no score is
\* the lower clamp's 0; the skill scores are at least 23 (pronunciation),
\* 15 (fluency), 45 (vocabulary), 50 (grammar), 40 (coherence), 30 (time).
C27_ScoreFloor ==
    pc = "done" =>
        /\ assessment.overallScore >= 34
        /\ assessment.level # "A1"
        /\ \A k \in Skills :
              assessment.scores[k] >= [ClaimedMinima EXCEPT !.fluency = 15][k]

\* every skill but vocabulary at its least, and the overall score at its least
C27_Witness ==
    /\ pc = "done"
    /\ assessment.scores = [pronunciation |-> 23, fluency |-> 15, vocabulary |-> 55,
                            grammar |-> 50, coherence |-> 40, time |-> 30]
    /\ assessment.overallScore = 34
    /\ assessment.level = "A2"

\* C29: scoring with the analysis of an empty text (wordCount = 0) gives the
\* same six skill scores and the same overall score as scoring with no
\* transcript.
C29_EmptyAsAbsent ==
    pc = "done" /\ transcriptionAnalysis = getEmptyAnalysis =>
        LET absent == analyzeFullSpeaking(audioFeatures, topic, NoTranscript)
        IN  /\ assessment.scores = absent.scores
            /\ assessment.overallScore = absent.overallScore

\* the five skills errors, recommendations, strengths and weaknesses are drawn from
FeedbackSkills == <<"pronunciation", "fluency", "vocabulary", "grammar", "coherence">>

\* C2: each of the six skill scores and the overall score of an Assessment is an
\* integer in 0..100, for every FeatureSet, transcript analysis (or none) and topic.
C2_ScoresInRange ==
    pc = "done" =>
        /\ \A k \in Skills : assessment.scores[k] \in 0..100
        /\ assessment.overallScore \in 0..100

\* a score that only the clamp keeps at 100, next to an unclamped low one
C2_Witness ==
    /\ pc = "done"
    /\ assessment.scores.coherence = 100
    /\ assessment.scores.pronunciation < 50
    /\ ~(assessment.transcription.present /\ assessment.transcription.wordCount = 0)

\* The recommendation list as a claim describes it: the per-skill entries for the
\* weakest and the second-weakest of the five skills, then the filler-word entry,
\* then the foundation entry, the first four of them.  `first` tells whether the
\* weakest skill gets its entry.
RecommendationTitles(a) ==
    [i \in 1..Len(a.recommendations) |-> a.recommendations[i].title]

ExpectedTitles(a, x, y, first) ==
    LET sc == a.scores
        t  == a.transcription
        all == (IF first THEN <<RecommendationTitle[x]>> ELSE <<>>)
               \o (IF sc[y] < 60 THEN <<RecommendationTitle[y]>> ELSE <<>>)
               \o (IF t.present /\ t.fillerWordCount > 5 THEN <<"Reduce Filler Words">> ELSE <<>>)
               \o (IF a.level \in {"A1", "A2"} THEN <<"Build Strong Foundation">> ELSE <<>>)
    IN  SubSeq(all, 1, IF Len(all) > 4 THEN 4 ELSE Len(all))

\* x is a weakest and y a second-weakest of the five skills
WeakestPair(a, x, y) ==
    /\ x # y
    /\ \A k \in Range(FeedbackSkills) : a.scores[x] <= a.scores[k]
    /\ \A k \in Range(FeedbackSkills) \ {x} : a.scores[y] <= a.scores[k]

\* C4 as stated: the weakest skill always gets a recommendation.
C4_Original ==
    pc = "done" =>
        \E x, y \in Range(FeedbackSkills) :
            /\ WeakestPair(assessment, x, y)
            /\ RecommendationTitles(assessment) = ExpectedTitles(assessment, x, y, TRUE)

\* C4: among the five non-time skills sorted ascending by score, the weakest gets a
\* recommendation only if its score is below 65 and the second-weakest only if its
\* score is below 60; then comes the filler-word recommendation if fillerWordCount > 5
\* and the foundation recommendation if the level is A1 or A2; at most 4 entries.
C4_Recommendations ==
    pc = "done" =>
        /\ Len(assessment.recommendations) <= 4
        /\ \E x, y \in Range(FeedbackSkills) :
            /\ WeakestPair(assessment, x, y)
            /\ RecommendationTitles(assessment) =
                   ExpectedTitles(assessment, x, y, assessment.scores[x] < 65)

\* every skill is at 65 or more and nothing is recommended
C4_Witness ==
    /\ pc = "done"
    /\ \A k \in Range(FeedbackSkills) : assessment.scores[k] >= 65
    /\ assessment.recommendations = <<>>

\* C5: identifyErrors returns one entry for each of the five skills scoring below 58
\* (none for time), with severity high below 40, medium below 50, low otherwise,
\* the high entries first, then the medium, then the low, each group in skill order.
ErrorsOfSeverity(a, sev) ==
    LET lo == IF sev = "high" THEN 0 ELSE IF sev = "medium" THEN 40 ELSE 50
        hi == IF sev = "high" THEN 40 ELSE IF sev = "medium" THEN 50 ELSE 58
        hit == SelectSeq(FeedbackSkills, LAMBDA k : lo <= a.scores[k] /\ a.scores[k] < hi)
    IN  [i \in 1..Len(hit) |-> [type |-> Capitalized[hit[i]], severity |-> sev]]

C5_Errors ==
    pc = "done" =>
        assessment.errors = ErrorsOfSeverity(assessment, "high")
                            \o ErrorsOfSeverity(assessment, "medium")
                            \o ErrorsOfSeverity(assessment, "low")

\* three severities at once, listed in another order than the skills', and a low
\* time score that gives no entry
C5_Witness ==
    /\ pc = "done"
    /\ Len(assessment.errors) >= 3
    /\ assessment.scores.time < 58
    /\ assessment.errors[1].type # "Pronunciation"
    /\ assessment.scores.pronunciation < 58
    /\ {assessment.errors[i].severity : i \in 1..Len(assessment.errors)} = {"high", "medium", "low"}

\* C6: strengths are the at most 3 highest-scoring of the five skills with score >= 65,
\* highest first; weaknesses the at most 3 lowest-scoring with score < 58, lowest
\* first; no skill is in both.
Min2(a, b) == IF a < b THEN a ELSE b

IsRanking(a, list, qualifies(_), better(_, _)) ==
    LET named == {list[i].name : i \in 1..Len(list)}
        cands == {k \in Range(FeedbackSkills) : qualifies(a.scores[k])}
    IN  /\ Len(list) = Min2(3, Cardinality(cands))
        /\ Cardinality(named) = Len(list)
        /\ \A i \in 1..Len(list) :
              \E k \in cands : list[i] = [name |-> Capitalized[k], score |-> a.scores[k]]
        /\ \A i \in 1..Len(list) : \A j \in 1..Len(list) :
              i < j => better(list[i].score, list[j].score)
        /\ \A i \in 1..Len(list) : \A k \in cands :
              Capitalized[k] \notin named => better(list[i].score, a.scores[k])

C6_StrengthsWeaknesses ==
    pc = "done" =>
        /\ IsRanking(assessment, assessment.strengths,
                     LAMBDA s : s >= 65, LAMBDA s, t : s >= t)
        /\ IsRanking(assessment, assessment.weaknesses,
                     LAMBDA s : s < 58, LAMBDA s, t : s <= t)
        /\ {assessment.strengths[i].name : i \in 1..Len(assessment.strengths)}
           \cap {assessment.weaknesses[i].name : i \in 1..Len(assessment.weaknesses)} = {}

\* more than three weak skills with different scores: the cap and the order both matter
C6_Witness ==
    /\ pc = "done"
    /\ Cardinality({k \in Range(FeedbackSkills) : assessment.scores[k] < 58}) > 3
    /\ Len(assessment.weaknesses) = 3
    /\ assessment.weaknesses[1].score < assessment.weaknesses[3].score

(***************************************************************************)
(* determineLevel applied to every integer score                           *)
(***************************************************************************)
InitLevel ==
    /\ pc = "determineLevel"
    /\ overallScore \in 0..100
    /\ level = NULL
    /\ scores = NULL
    /\ keyOrder = NULL
    /\ NoScoring /\ NoTranscriber /\ NoAudio /\ NoApp

DetermineLevel ==
    /\ pc = "determineLevel"
    /\ level' = determineLevel(overallScore)
    /\ pc' = "done"
    /\ UNCHANGED <<scores, keyOrder, overallScore>>
    /\ UNCHANGED <<scoringVars, transcriptVars, audioVars>>
    /\ UNCHANGED appVars

NextLevel == DetermineLevel

SpecLevel == InitLevel /\ [][NextLevel]_vars

\* C1: every integer score in 0..100 gets exactly one level, the one whose band
\* A1 [0,28), A2 [28,42), B1 [42,58), B2 [58,73), C1 [73,87), C2 [87,100] holds it;
\* 58 gives B2 and 100 gives C2.
BandOf(s) ==
    {l \in {"A1", "A2", "B1", "B2", "C1", "C2"} :
        \/ l = "A1" /\ 0 <= s /\ s < 28
        \/ l = "A2" /\ 28 <= s /\ s < 42
        \/ l = "B1" /\ 42 <= s /\ s < 58
        \/ l = "B2" /\ 58 <= s /\ s < 73
        \/ l = "C1" /\ 73 <= s /\ s < 87
        \/ l = "C2" /\ 87 <= s /\ s <= 100}

C1_LevelTotal ==
    pc = "done" =>
        /\ BandOf(overallScore) = {level}
        /\ (overallScore = 58 => level = "B2")
        /\ (overallScore = 100 => level = "C2")

\* the bands of README.md, each read with both of its ends
ReadmeBandOf(s) ==
    {l \in {"A1", "A2", "B1", "B2", "C1", "C2"} :
        \/ l = "A1" /\ 0 <= s /\ s <= 35
        \/ l = "A2" /\ 35 <= s /\ s <= 50
        \/ l = "B1" /\ 50 <= s /\ s <= 65
        \/ l = "B2" /\ 65 <= s /\ s <= 80
        \/ l = "C1" /\ 80 <= s /\ s <= 92
        \/ l = "C2" /\ 92 <= s /\ s <= 100}

\* C19: the level reported for an overall score is the one of the README's
\* bands: A1 for 0-35, A2 for 35-50, B1 for 50-65, B2 for 65-80, C1 for 80-92,
\* C2 for 92-100.
C19_ReadmeBands == pc = "done" => level \in ReadmeBandOf(overallScore)

C1_Witness == pc = "done" /\ overallScore = 100 /\ level = "C2"

(***************************************************************************)
(* calculateOverallScore applied to score maps enumerated in any order     *)
(***************************************************************************)
\* scores each skill's analysis can return (see the analyze* operators)
OverallInputs ==
    [pronunciation : {23, 75}, fluency : {15, 78}, vocabulary : {55, 80},
     grammar : {67, 65}, coherence : {63}, time : {30, 95}]

KeyOrders ==
    {p \in [1..Len(SourceKeys) -> Skills] :
        \A i, j \in 1..Len(SourceKeys) : i # j => p[i] # p[j]}

InitOverall ==
    /\ pc = "calculateOverallScore"
    /\ scores \in OverallInputs
    /\ keyOrder = NULL
    /\ overallScore = NULL
    /\ level = NULL
    /\ NoScoring /\ NoTranscriber /\ NoAudio /\ NoApp

CalculateOverallScore ==
    /\ pc = "calculateOverallScore"
    /\ \E keys \in KeyOrders :
        /\ keyOrder' = keys
        /\ overallScore' = calculateOverallScore(scores, keys)
    /\ pc' = "done"
    /\ UNCHANGED <<scores, level>>
    /\ UNCHANGED <<scoringVars, transcriptVars, audioVars>>
    /\ UNCHANGED appVars

NextOverall == CalculateOverallScore

SpecOverall == InitOverall /\ [][NextOverall]_vars

\* C3: calculateOverallScore returns round(clamp(sum of score x weight, 0, 100))
\* with the weights .22 .22 .18 .15 .13 .10, whatever the order of the entries.
WeightPct ==
    [pronunciation |-> 22, fluency |-> 22, vocabulary |-> 18,
     grammar |-> 15, coherence |-> 13, time |-> 10]

RECURSIVE SumPct(_, _)
SumPct(sc, ks) ==
    IF ks = {} THEN 0
    ELSE LET k == CHOOSE x \in ks : TRUE
         IN  sc[k] * WeightPct[k] + SumPct(sc, ks \ {k})

\* round(clamp(s / 100, 0, 100)) for the sum s of score x percent weight
RoundedWeightedSum(sc) ==
    LET s == SumPct(sc, Skills)
        c == IF s < 0 THEN 0 ELSE IF s > 10000 THEN 10000 ELSE s
    IN  (c + 50) \div 100

C3_OverallIsRoundedSum ==
    pc = "done" =>
        /\ SumPct([k \in Skills |-> 1], Skills) = 100
        /\ overallScore = RoundedWeightedSum(scores)
        /\ overallScore = calculateOverallScore(scores, SourceKeys)

(***************************************************************************)
(* AudioProcessor (audio-processor.js).                                    *)
(*                                                                         *)
(* An audio buffer is its first channel and its sample rate.  A sample is  *)
(* an integer count of 0.005 of full scale, so that 2 is the silence       *)
(* threshold 0.01 and every non-zero sample is above the quiet-window      *)
(* limit 0.001.  The duration of a buffer is the exact quotient of its     *)
(* length by its rate, kept as the pair.  The volume figures, which the    *)
(* code rounds to six decimals, are kept to three.  Square roots and       *)
(* quotients are those of the real numbers: a pitch variation that is      *)
(* exactly 0.2 or 0.6 takes the band of that value.                        *)
(***************************************************************************)
NoBuffer == [present |-> FALSE]

AudioBuffer(samples, sampleRate) ==
    [present |-> TRUE, samples |-> samples, sampleRate |-> sampleRate]

Seconds(num, den) == [k |-> "finite", num |-> num, den |-> den]

\* audioBuffer.duration = length / sampleRate
DurationOf(buf) ==
    LET len == Len(buf.samples)
        sr  == buf.sampleRate
    IN  IF sr # 0 THEN Seconds(len, sr)
        ELSE IF len = 0 THEN NaN ELSE PosInfinity

Abs(x) == IF x < 0 THEN -x ELSE x

\* how a number stands to a whole number of seconds: "lt", "eq", "gt", or
\* "un" when it is NaN
Compare(d, c) ==
    IF d.k = "NaN" THEN "un"
    ELSE IF d.k = "Infinity" THEN "gt"
    ELSE IF d.k = "-Infinity" THEN "lt"
    ELSE LET n == IF d.den > 0 THEN d.num ELSE -d.num
             m == Abs(d.den)
         IN  IF n < c * m THEN "lt" ELSE IF n = c * m THEN "eq" ELSE "gt"

\* Math.round of the quotient a / b, b > 0
RoundDiv(a, b) == (2 * a + b) \div (2 * b)

RECURSIVE SqrtSearch(_, _, _)
SqrtSearch(x, lo, hi) ==
    IF lo = hi THEN lo
    ELSE LET mid == (lo + hi + 1) \div 2
         IN  IF mid * mid <= x THEN SqrtSearch(x, mid, hi)
             ELSE SqrtSearch(x, lo, mid - 1)

\* the integer part of Math.sqrt(x)
ISqrt(x) == SqrtSearch(x, 0, 46340)

\* scale * Math.sqrt(num / den), rounded to the nearest integer
RoundSqrtScaled(num, den, scale) ==
    (ISqrt((4 * num * scale * scale) \div den) + 1) \div 2

analyzeDuration(duration) ==
    LET half  == Compare(duration, 30)
        one   == Compare(duration, 60)
        three == Compare(duration, 180)
        four  == Compare(duration, 240)
    IN  [score |->
            IF half = "lt" THEN 40
            ELSE IF half \in {"eq", "gt"} /\ one = "lt" THEN 60
            ELSE IF one \in {"eq", "gt"} /\ three \in {"lt", "eq"} THEN 95
            ELSE IF three = "gt" /\ four \in {"lt", "eq"} THEN 85
            ELSE 70]

RECURSIVE SumAbs(_, _, _)
SumAbs(channelData, from, to) ==
    IF from > to THEN 0
    ELSE Abs(channelData[from]) + SumAbs(channelData, from + 1, to)

RECURSIVE SumSquares(_, _)
SumSquares(channelData, n) ==
    IF n = 0 THEN 0
    ELSE channelData[n] * channelData[n] + SumSquares(channelData, n - 1)

\* 1 - sqrt(num / den) in thousandths, between 0 and 1000
OneMinusSqrt(num, den) ==
    IF num >= den THEN 0
    ELSE LET h   == RoundSqrtScaled(num, den, 1000)
             tie == (2 * h - 1) * (2 * h - 1) * den = 4000000 * num
         IN  1000 - (IF tie THEN h - 1 ELSE h)

analyzeVolume(channelData) ==
    LET length     == Len(channelData)
        sum        == SumAbs(channelData, 1, length)
        sumSquares == SumSquares(channelData, length)
        \* (stdDev / average)^2 = num / den
        num        == length * sumSquares - sum * sum
        den        == sum * sum
    IN  IF length = 0
        THEN [average |-> NaN, consistency |-> 0, energy |-> NaN,
              spread |-> [num |-> 1, den |-> 1]]
        ELSE [average     |-> Num(RoundDiv(5 * sum, length)),
              consistency |-> IF sum > 0 THEN OneMinusSqrt(num, den) ELSE 0,
              energy      |-> Num(RoundSqrtScaled(sumSquares, length, 5)),
              \* the consistency before rounding is
              \* max(0, 1 - sqrt(spread.num / spread.den))
              spread      |-> IF sum > 0 /\ num < den
                              THEN [num |-> num, den |-> den]
                              ELSE [num |-> 1, den |-> 1]]

\* one turn of the loop of detectPauses on a sample x; st holds currentPause,
\* the pauses counted, the samples in them, and how many of them were of no
\* sample at all
PauseStep(minPauseSamples, st, x) ==
    IF Abs(x) < 2
    THEN [st EXCEPT !.currentPause = st.currentPause + 1]
    ELSE IF st.currentPause >= minPauseSamples
    THEN [currentPause |-> 0,
          count   |-> st.count + 1,
          samples |-> st.samples + st.currentPause,
          empties |-> st.empties + (IF st.currentPause = 0 THEN 1 ELSE 0)]
    ELSE [st EXCEPT !.currentPause = 0]

\* the loop of detectPauses over the samples from..to in their order: the
\* first half of them, then, from the state these leave (whose count is
\* never negative), the second half
RECURSIVE PauseScan(_, _, _, _, _)
PauseScan(channelData, minPauseSamples, from, to, st) ==
    IF from > to THEN st
    ELSE IF from = to THEN PauseStep(minPauseSamples, st, channelData[from])
    ELSE LET mid   == (from + to) \div 2
             first == PauseScan(channelData, minPauseSamples, from, mid, st)
         IN  IF first.count >= 0
             THEN PauseScan(channelData, minPauseSamples, mid + 1, to, first)
             ELSE first

detectPauses(channelData, sampleRate) ==
    LET minPauseSamples == (3 * sampleRate) \div 10
        looped == PauseScan(channelData, minPauseSamples, 1, Len(channelData),
                            [currentPause |-> 0, count |-> 0, samples |-> 0, empties |-> 0])
        \* the check of the pause the buffer ends in
        scan == IF looped.currentPause >= minPauseSamples
                THEN [count   |-> looped.count + 1,
                      samples |-> looped.samples + looped.currentPause,
                      empties |-> looped.empties
                                    + (IF looped.currentPause = 0 THEN 1 ELSE 0)]
                ELSE looped
        pauseCount == scan.count
        hundredths == RoundDiv(100 * scan.samples, Abs(sampleRate))
        totalDuration ==
            IF sampleRate > 0 THEN Num(hundredths)
            ELSE IF sampleRate < 0 THEN Num(-hundredths)
            ELSE IF pauseCount = 0 THEN Num(0)
            ELSE IF scan.empties > 0 THEN NaN
            ELSE PosInfinity
    IN  [count |-> pauseCount,
         totalDuration |-> totalDuration,
         score |-> IF pauseCount < 3 THEN 60
                   ELSE IF pauseCount <= 15 THEN 95
                   ELSE IF pauseCount <= 25 THEN 80
                   ELSE 65]

\* the band of a rate of num / den words per minute, den > 0
SpeechRateScore(num, den) ==
    IF num < 100 * den THEN 70
    ELSE IF num <= 160 * den THEN 95
    ELSE IF num <= 180 * den THEN 85
    ELSE 65

\* estimateSpeechRate without the floor of one second on the active time
estimateSpeechRateNoFloor(duration, pauseAnalysis) ==
    LET total == pauseAnalysis.totalDuration
        n == IF duration.den > 0 THEN duration.num ELSE -duration.num
        m == Abs(duration.den)
        active == 100 * n - total.v * m
        num == IF n > 0 THEN 3 * active ELSE -3 * active
        den == 2 * Abs(n)
    IN  [rate |-> Num(RoundDiv(num, den)), score |-> SpeechRateScore(num, den)]

\* estimateSpeechRate with a floor of two seconds on the active time
estimateSpeechRateFloorTwo(duration, pauseAnalysis) ==
    LET total == pauseAnalysis.totalDuration
    IN  IF duration.k \in {"NaN", "Infinity"} \/ total.k = "NaN"
        THEN [rate |-> NaN, score |-> 65]
        ELSE
        LET n == IF duration.den > 0 THEN duration.num ELSE -duration.num
            m == Abs(duration.den)
            \* duration - totalDuration, in 1 / (100 * m) of a second
            spoken == 100 * n - total.v * m
            \* activeSpeechTime, in the same unit
            active == IF spoken > 200 * m THEN spoken ELSE 200 * m
            \* wordsPerMinute = active * 2.5 / duration * 60
            \*                = 3 * active / (2 * n)
            num == IF n > 0 THEN 3 * active ELSE -3 * active
            den == 2 * Abs(n)
        IN  IF n = 0
            THEN IF duration.den > 0
                 THEN [rate |-> PosInfinity, score |-> 65]
                 ELSE [rate |-> NegInfinity, score |-> 70]
            ELSE [rate |-> Num(RoundDiv(num, den)),
                  score |-> SpeechRateScore(num, den)]

\* defined for a duration that is not -Infinity and, when the duration is
\* finite, a total pause duration that is finite or NaN
estimateSpeechRate(duration, pauseAnalysis) ==
    LET total == pauseAnalysis.totalDuration
    IN  IF duration.k \in {"NaN", "Infinity"} \/ total.k = "NaN"
        THEN [rate |-> NaN, score |-> 65]
        ELSE
        LET n == IF duration.den > 0 THEN duration.num ELSE -duration.num
            m == Abs(duration.den)
            \* duration - totalDuration, in 1 / (100 * m) of a second
            spoken == 100 * n - total.v * m
            \* activeSpeechTime, in the same unit
            active == IF spoken > 100 * m THEN spoken ELSE 100 * m
            \* wordsPerMinute = active * 2.5 / duration * 60
            \*                = 3 * active / (2 * n)
            num == IF n > 0 THEN 3 * active ELSE -3 * active
            den == 2 * Abs(n)
        IN  IF n = 0
            THEN IF duration.den > 0
                 THEN [rate |-> PosInfinity, score |-> 65]
                 ELSE [rate |-> NegInfinity, score |-> 70]
            ELSE [rate |-> Num(RoundDiv(num, den)),
                  score |-> SpeechRateScore(num, den)]

\* the sums of the absolute samples of the first n windows
WindowSums(channelData, windowSize, n) ==
    [i \in 1..n |->
        SumAbs(channelData, (i - 1) * windowSize + 1, i * windowSize)]

SquaresOver(seq) == SumSeq([i \in 1..Len(seq) |-> seq[i] * seq[i]])

\* halts is FALSE when the loop over the windows has no end
analyzePitch(channelData, sampleRate) ==
    LET windowSize == sampleRate \div 20
        length     == Len(channelData)
        windows    == IF windowSize > 0 THEN length \div windowSize ELSE 0
        \* a window of average avg = sum * 0.005 / windowSize counts when
        \* avg > 0.001
        pitchValues == SelectSeq(WindowSums(channelData, windowSize, windows),
                                 LAMBDA s : 5 * s > windowSize)
        n    == Len(pitchValues)
        sum  == SumSeq(pitchValues)
        \* (variance / mean^2) = num / den
        num  == n * SquaresOver(pitchValues) - sum * sum
        den  == sum * sum
    IN  IF windowSize = 0 /\ length > 0
        THEN [halts |-> FALSE, variation |-> Fixed(0), score |-> 0]
        ELSE IF n = 0
        THEN [halts |-> TRUE, variation |-> Fixed(0), score |-> 50]
        ELSE [halts |-> TRUE,
              variation |-> Fixed(RoundSqrtScaled(num, den, 1000)),
              score |-> IF 25 * num < den THEN 65
                        ELSE IF 25 * num <= 9 * den THEN 95
                        ELSE 75]

\* the least integer that is at least scale * Math.sqrt(num / den)
CeilSqrtScaled(num, den, scale) ==
    LET x == (num * scale * scale + den - 1) \div den
    IN  IF x = 0 THEN 0 ELSE ISqrt(x - 1) + 1

\* Math.round(consistency * 50 + score / 2), where consistency is
\* 1 - sqrt(spread): the floor of (101 + score - 100 * sqrt(spread)) / 2
estimateClarity(volumeAnalysis, pitchAnalysis) ==
    LET spread == volumeAnalysis.spread
    IN  Clamp0to100((101 + pitchAnalysis.score
                     - CeilSqrtScaled(spread.num, spread.den, 100)) \div 2)

extractFeatures(buf) ==
    IF ~buf.present
    THEN [outcome |-> "error", message |-> "No audio buffer available"]
    ELSE
    LET duration   == DurationOf(buf)
        sampleRate == buf.sampleRate
        channelData == buf.samples
        durationAnalysis   == analyzeDuration(duration)
        volumeAnalysis     == analyzeVolume(channelData)
        pauseAnalysis      == detectPauses(channelData, sampleRate)
        speechRateAnalysis == estimateSpeechRate(duration, pauseAnalysis)
        pitchAnalysis      == analyzePitch(channelData, sampleRate)
        clarity            == estimateClarity(volumeAnalysis, pitchAnalysis)
    IN  IF ~pitchAnalysis.halts
        THEN [outcome |-> "no return"]
        ELSE [outcome |-> "features",
              features |->
                [duration          |-> duration,
                 durationScore     |-> durationAnalysis.score,
                 averageVolume     |-> volumeAnalysis.average,
                 volumeConsistency |-> volumeAnalysis.consistency,
                 energyLevel       |-> volumeAnalysis.energy,
                 totalPauses       |-> pauseAnalysis.count,
                 pauseDuration     |-> pauseAnalysis.totalDuration,
                 pauseScore        |-> pauseAnalysis.score,
                 speechRate        |-> speechRateAnalysis.rate,
                 speechRateScore   |-> speechRateAnalysis.score,
                 pitchVariation    |-> pitchAnalysis.variation,
                 pitchScore        |-> pitchAnalysis.score,
                 clarity           |-> clarity]]

(***************************************************************************)
(* Feature extraction from a buffer.                                       *)
(***************************************************************************)
MaxSamples == 6

Amplitudes == {0, 1, 2, -3}

SampleRates == {-20, 0, 10, 20, 21, 50}

RECURSIVE SamplesUpTo(_)
SamplesUpTo(n) ==
    IF n = 0 THEN {<< >>}
    ELSE LET shorter == SamplesUpTo(n - 1)
         IN  shorter \cup {Append(s, a) : s \in {t \in shorter : Len(t) = n - 1},
                                          a \in Amplitudes}

InitAudio ==
    /\ pc = "extractFeatures"
    /\ audioBuffer \in {NoBuffer}
           \cup {AudioBuffer(s, r) : s \in SamplesUpTo(MaxSamples), r \in SampleRates}
    /\ extraction = NULL
    /\ analyzedDuration = NULL /\ detectedPauses = NULL /\ estimatedRate = NULL
    /\ NoOverall /\ NoScoring /\ NoTranscriber /\ NoApp

ExtractFeatures ==
    /\ pc = "extractFeatures"
    /\ extraction' = extractFeatures(audioBuffer)
    /\ pc' = "done"
    /\ UNCHANGED <<overallVars, scoringVars, transcriptVars>>
    /\ UNCHANGED <<audioBuffer, analyzedDuration, detectedPauses, estimatedRate>>
    /\ UNCHANGED appVars

NextAudio == ExtractFeatures

SpecAudio == InitAudio /\ [][NextAudio]_vars

InvalidAudio ==
    /\ audioBuffer.present
    /\ (Len(audioBuffer.samples) = 0 \/ audioBuffer.sampleRate <= 0)

\* C7: whenever the sample buffer is empty or the sample rate is <= 0,
\* feature extraction ends in an error and produces no FeatureSet.
C7_InvalidAudioFails ==
    (pc = "done" /\ InvalidAudio) => extraction.outcome = "error"

\* a buffer that holds samples at a positive rate
ValidAudio ==
    /\ audioBuffer.present
    /\ Len(audioBuffer.samples) > 0 /\ audioBuffer.sampleRate > 0

\* x <= y for a number x of hundredths and a duration y
AtMostDuration(x, y) ==
    /\ x.k = "finite" /\ y.k = "finite"
    /\ IF y.den > 0 THEN x.v * y.den <= 100 * y.num
                    ELSE x.v * y.den >= 100 * y.num

\* C11: in every FeatureSet that extractFeatures produces from a buffer of
\* samples at a positive rate, pauseDuration <= duration.
C11_PauseWithinDuration ==
    (pc = "done" /\ ValidAudio /\ extraction.outcome = "features") =>
        AtMostDuration(extraction.features.pauseDuration, extraction.features.duration)

\* C20: for every non-empty sample buffer and every sample rate > 0, rates below
\* 20 Hz included, extractFeatures terminates, returning its FeatureSet.
C20_ExtractionTerminates ==
    (pc = "done" /\ ValidAudio) => extraction.outcome = "features"

(***************************************************************************)
(* The scoring engine over durations on and around every breakpoint        *)
(***************************************************************************)
TimedDurations ==
    {0, 2500, 2999, 3000, 4500, 5999, 6000, 9000, 15000, 15001, 18000,
     21000, 21001, 24000, 30000}

TimedFeatureSets ==
    [duration          : TimedDurations,
     clarity           : {30, 90},
     pitchVariation    : {Fixed(400)},
     volumeConsistency : {200, 800},
     totalPauses       : {4},
     pauseDuration     : {0, 2000},
     pauseScore        : {60, 95},
     speechRate        : {80, 200}]

InitTime ==
    /\ pc = "analyzeFullSpeaking"
    /\ audioFeatures \in TimedFeatureSets
    /\ topic \in Topics
    /\ transcriptionAnalysis \in SampleAnalyses \cup {getEmptyAnalysis, NoTranscript}
    /\ assessment = NULL
    /\ calls = <<>>
    /\ NoOverall /\ NoTranscriber /\ NoAudio /\ NoApp

SpecTime == InitTime /\ [][Next]_vars

\* C12: the time-management score depends on the duration alone: below 0.5
\* minutes it is 30, from 1 to 2.5 minutes 95, above 3.5 minutes 65, whatever
\* the other features, the transcript and the topic are; where the extractor's
\* duration bands give another score (40 below 0.5 minutes, 95 up to 3 minutes,
\* 85 up to 4 minutes, 70 above), the time-management score is not that one.
C12_TimeFromDurationAlone ==
    pc = "done" =>
        LET d    == audioFeatures.duration
            time == assessment.scores.time
        IN  /\ (d < 3000 => time = 30)
            /\ (d >= 6000 /\ d <= 15000 => time = 95)
            /\ (d > 21000 => time = 65)
            /\ (d < 3000 \/ d > 15000 =>
                    time # analyzeDuration(Seconds(d, 100)).score)

C12_Witness ==
    /\ pc = "done"
    /\ audioFeatures.duration = 2500 /\ assessment.scores.time = 30
    /\ audioFeatures.clarity = 90 /\ audioFeatures.pauseScore = 95
    /\ ~transcriptionAnalysis.present

(***************************************************************************)
(* Repeated calls of analyzeFullSpeaking on one AIAnalyzer                 *)
(***************************************************************************)
MaxCalls == 3

RepeatFeatureSets ==
    [duration          : {2500, 9000},
     clarity           : {90},
     pitchVariation    : {Fixed(400)},
     volumeConsistency : {500},
     totalPauses       : {4},
     pauseDuration     : {800},
     pauseScore        : {95},
     speechRate        : {130}]

RepeatAnalyses == {NoTranscript, getEmptyAnalysis}

\* an Assessment with the time of the call in its timestamp field
StampedIntoScore(result, now) ==
    [f \in DOMAIN result \cup {"timestamp"} |->
        IF f = "timestamp" THEN now
        ELSE IF f = "overallScore" THEN (result[f] + now) % 101
        ELSE result[f]]

Stamped(result, now) ==
    [f \in DOMAIN result \cup {"timestamp"} |->
        IF f = "timestamp" THEN now ELSE result[f]]

\* one call: its arguments and the Assessment it returns
Call(features, topicId, transcription, now) ==
    [features |-> features, topic |-> topicId, transcription |-> transcription,
     assessment |-> Stamped(analyzeFullSpeaking(features, topicId, transcription), now)]

InitRepeat ==
    /\ pc = "analyzeFullSpeaking"
    /\ audioFeatures \in RepeatFeatureSets
    /\ topic \in Topics
    /\ transcriptionAnalysis \in RepeatAnalyses
    /\ assessment = NULL
    /\ calls = <<>>
    /\ NoOverall /\ NoTranscriber /\ NoAudio /\ NoApp

\* the caller analyses the recording it holds
CallAgain ==
    /\ pc = "analyzeFullSpeaking"
    /\ Len(calls) < MaxCalls
    /\ LET call == Call(audioFeatures, topic, transcriptionAnalysis, Len(calls) + 1)
       IN  /\ assessment' = call.assessment
           /\ calls' = Append(calls, call)
    /\ UNCHANGED <<pc, audioFeatures, topic, transcriptionAnalysis>>
    /\ UNCHANGED <<overallVars, transcriptVars, audioVars>>
    /\ UNCHANGED appVars

\* the same analyzer is called on another recording
CallOther ==
    /\ pc = "analyzeFullSpeaking"
    /\ Len(calls) < MaxCalls
    /\ \E f \in RepeatFeatureSets, t \in Topics, tr \in RepeatAnalyses :
           /\ <<f, t, tr>> # <<audioFeatures, topic, transcriptionAnalysis>>
           /\ calls' = Append(calls, Call(f, t, tr, Len(calls) + 1))
    /\ UNCHANGED <<pc, audioFeatures, topic, transcriptionAnalysis, assessment>>
    /\ UNCHANGED <<overallVars, transcriptVars, audioVars>>
    /\ UNCHANGED appVars

NextRepeat == CallAgain \/ CallOther

SpecRepeat == InitRepeat /\ [][NextRepeat]_vars

WithoutTimestamp(a) == [f \in DOMAIN a \ {"timestamp"} |-> a[f]]

SameArguments(c, d) ==
    c.features = d.features /\ c.topic = d.topic /\ c.transcription = d.transcription

\* C13: two calls of analyzeFullSpeaking with the same FeatureSet, transcript
\* analysis and topic return Assessments equal in every field but timestamp,
\* whatever calls were made in between.
C13_RepeatableAssessment ==
    \A i, j \in 1..Len(calls) :
        SameArguments(calls[i], calls[j]) =>
            WithoutTimestamp(calls[i].assessment) = WithoutTimestamp(calls[j].assessment)

C13_Witness ==
    /\ Len(calls) = 3
    /\ SameArguments(calls[1], calls[3])
    /\ ~SameArguments(calls[1], calls[2])
    /\ calls[1].assessment.timestamp # calls[3].assessment.timestamp

(***************************************************************************)
(* detectPauses applied to a channel and a sample rate                     *)
(***************************************************************************)
PauseRates == {3, 10, 20}

InitPauses ==
    /\ pc = "detectPauses"
    /\ audioBuffer \in {AudioBuffer(s, r) : s \in SamplesUpTo(MaxSamples) \ {<< >>},
                                             r \in PauseRates}
    /\ extraction = NULL
    /\ analyzedDuration = NULL /\ detectedPauses = NULL /\ estimatedRate = NULL
    /\ NoOverall /\ NoScoring /\ NoTranscriber /\ NoApp

DetectPauses ==
    /\ pc = "detectPauses"
    /\ detectedPauses' = detectPauses(audioBuffer.samples, audioBuffer.sampleRate)
    /\ pc' = "done"
    /\ UNCHANGED <<overallVars, scoringVars, transcriptVars>>
    /\ UNCHANGED <<audioBuffer, extraction, analyzedDuration, estimatedRate>>
    /\ UNCHANGED appVars

NextPauses == DetectPauses

SpecPauses == InitPauses /\ [][NextPauses]_vars

Silent(x) == Abs(x) < 2

\* the maximal runs of silent samples, each as <<first, last>>
SilentRuns(data) ==
    {r \in (1..Len(data)) \X (1..Len(data)) :
        /\ r[1] <= r[2]
        /\ \A i \in r[1]..r[2] : Silent(data[i])
        /\ (r[1] = 1 \/ ~Silent(data[r[1] - 1]))
        /\ (r[2] = Len(data) \/ ~Silent(data[r[2] + 1]))}

\* those of at least 300 ms
LongSilentRuns(data, sampleRate) ==
    {r \in SilentRuns(data) : r[2] - r[1] + 1 >= (3 * sampleRate) \div 10}

RECURSIVE TotalLength(_)
TotalLength(runs) ==
    IF runs = {} THEN 0
    ELSE LET r == CHOOSE x \in runs : TRUE
         IN  (r[2] - r[1] + 1) + TotalLength(runs \ {r})

\* C14: detectPauses counts one pause for each maximal run of silent samples
\* of at least 300 ms, a run that ends the buffer included, and its
\* totalDuration is the total length of those runs divided by the sample rate
\* (to two decimals).
C14_PausesAreLongSilentRuns ==
    pc = "done" =>
        LET long == LongSilentRuns(audioBuffer.samples, audioBuffer.sampleRate)
        IN  /\ detectedPauses.count = Cardinality(long)
            /\ detectedPauses.totalDuration =
                   Num(RoundDiv(100 * TotalLength(long), audioBuffer.sampleRate))

(***************************************************************************)
(* Duration, pauses and speech rate of recordings at 10 samples a second:  *)
(* speech at amplitude 0.02 with evenly spaced pauses of equal length      *)
(***************************************************************************)
RecordingRate == 10

RecordingLengths == {5, 8, 9, 100, 300, 900}

RecordingPauses == 0..5

RecordingPauseLengths == {2, 3, 5, 20}

Recording(length, pauseCount, pauseLength) ==
    LET stride == length \div (pauseCount + 1)
    IN  [i \in 1..length |->
            IF \E k \in 1..pauseCount : i \in (k * stride - pauseLength + 1)..(k * stride)
            THEN 0 ELSE 4]

Recordings ==
    {AudioBuffer(Recording(l, c, p), RecordingRate) :
        <<l, c, p>> \in {x \in RecordingLengths \X RecordingPauses \X RecordingPauseLengths :
                           x[2] = 0 \/ x[3] < x[1] \div (x[2] + 1)}}

InitRate ==
    /\ pc = "estimateSpeechRate"
    /\ audioBuffer \in Recordings
    /\ extraction = NULL
    /\ analyzedDuration = NULL /\ detectedPauses = NULL /\ estimatedRate = NULL
    /\ NoOverall /\ NoScoring /\ NoTranscriber /\ NoApp

\* extractFeatures up to its speech rate estimate
EstimateSpeechRate ==
    /\ pc = "estimateSpeechRate"
    /\ LET duration == DurationOf(audioBuffer)
           pauses   == detectPauses(audioBuffer.samples, audioBuffer.sampleRate)
       IN  /\ analyzedDuration' = analyzeDuration(duration)
           /\ detectedPauses' = pauses
           /\ estimatedRate' = estimateSpeechRate(duration, pauses)
    /\ pc' = "done"
    /\ UNCHANGED <<overallVars, scoringVars, transcriptVars>>
    /\ UNCHANGED <<audioBuffer, extraction>>
    /\ UNCHANGED appVars

NextRate == EstimateSpeechRate

SpecRate == InitRate /\ [][NextRate]_vars

\* the 90 s recording with 4 pauses of 2 s
ScenarioRecording == AudioBuffer(Recording(900, 4, 20), RecordingRate)

\* C15: the speech rate is max(1, duration - totalPauseDuration) x 2.5 /
\* duration x 60, rounded, and its score is 70 below 100, 95 up to 160, 85 up
\* to 180 and 65 above; the 90 s recording with 4 pauses totalling 8 s gets
\* pauseScore 95, durationScore 95, speechRate 137 and speechRateScore 95.
C15_SpeechRate ==
    pc = "done" =>
        LET length == Len(audioBuffer.samples)
            \* duration and pause total in hundredths of a second
            d      == (100 * length) \div RecordingRate
            total  == detectedPauses.totalDuration.v
            active == IF d - total > 100 THEN d - total ELSE 100
            \* wpm = active * 150 / d
        IN  /\ estimatedRate.rate = Num((2 * 150 * active + d) \div (2 * d))
            /\ estimatedRate.score =
                   IF 150 * active < 100 * d THEN 70
                   ELSE IF 150 * active <= 160 * d THEN 95
                   ELSE IF 150 * active <= 180 * d THEN 85
                   ELSE 65
            /\ (audioBuffer = ScenarioRecording =>
                   /\ detectedPauses.count = 4
                   /\ detectedPauses.totalDuration = Num(800)
                   /\ detectedPauses.score = 95
                   /\ analyzedDuration.score = 95
                   /\ estimatedRate.rate = Num(137)
                   /\ estimatedRate.score = 95)

C15_Witness ==
    /\ pc = "done"
    /\ audioBuffer = ScenarioRecording
    /\ detectedPauses.count = 4
    /\ estimatedRate.score = 95

\* the floor of one second applies and the score is not that of 150 words a minute
C15_ShortWitness ==
    /\ pc = "done"
    /\ Len(audioBuffer.samples) = 5
    /\ estimatedRate.score = 65

(***************************************************************************)
(* estimateSpeechRate applied to a duration and a pause analysis of any    *)
(* total, also one longer than the recording                               *)
(***************************************************************************)
MaxPaceLength == 40

\* lengths in samples at RecordingRate: 0.5 s to 4 s, and 90 s
PaceLengths == (5..MaxPaceLength) \cup {900}

\* pause totals in hundredths of a second
PauseTotals == {0, 1, 50, 100, 250, 1000}

InitPace ==
    /\ pc = "pace"
    /\ audioBuffer \in {AudioBuffer([i \in 1..n |-> 4], RecordingRate) : n \in PaceLengths}
    /\ detectedPauses \in {[count |-> c, totalDuration |-> Num(t),
                            score |-> IF c < 3 THEN 60 ELSE 95] :
                              c \in {0, 4}, t \in PauseTotals}
    /\ extraction = NULL
    /\ analyzedDuration = NULL /\ estimatedRate = NULL
    /\ NoOverall /\ NoScoring /\ NoTranscriber /\ NoApp

EstimatePace ==
    /\ pc = "pace"
    /\ estimatedRate' = estimateSpeechRate(DurationOf(audioBuffer), detectedPauses)
    /\ pc' = "done"
    /\ UNCHANGED <<overallVars, scoringVars, transcriptVars>>
    /\ UNCHANGED <<audioBuffer, extraction, analyzedDuration, detectedPauses>>
    /\ UNCHANGED appVars

NextPace == EstimatePace

SpecPace == InitPace /\ [][NextPace]_vars

\* the fluency score of a recording with the estimated rate, no pause and no
\* transcript: 86, 78 or 63 when the rate is at most 150, 78 or 58 above it
PaceFluency ==
    analyzeFluency([duration |-> 10 * Len(audioBuffer.samples), totalPauses |-> 0,
                    pauseDuration |-> 0, speechRate |-> estimatedRate.rate.v],
                   NoTranscript).score

\* C28: for a duration of at least 1 second and a pause total of at least 0,
\* estimateSpeechRate returns a rate of at most 150 and a score of 70 or 95,
\* and analyzeFluency takes none of its branches for a rate above 150.
C28_RateAtMost150 ==
    pc = "done" /\ Len(audioBuffer.samples) >= RecordingRate =>
        /\ estimatedRate.rate.k = "finite"
        /\ estimatedRate.rate.v <= 150
        /\ estimatedRate.score \in {70, 95}
        /\ ~(estimatedRate.rate.v > 150 /\ estimatedRate.rate.v <= 170)
        /\ PaceFluency \in {86, 78, 63}

\* one second without a pause: 150 words a minute exactly
C28_Witness ==
    /\ pc = "done"
    /\ Len(audioBuffer.samples) = RecordingRate
    /\ detectedPauses.totalDuration = Num(0)
    /\ estimatedRate = [rate |-> Num(150), score |-> 95]
    /\ PaceFluency = 86

\* pauses longer than the recording: the floor of one second applies
C28_SlowWitness ==
    /\ pc = "done"
    /\ Len(audioBuffer.samples) = 20
    /\ detectedPauses.totalDuration = Num(1000)
    /\ estimatedRate = [rate |-> Num(75), score |-> 70]
    /\ PaceFluency = 63

\* the bands 85 and 65 below one second
C28_ShortWitness ==
    /\ pc = "done"
    /\ Len(audioBuffer.samples) = 9
    /\ estimatedRate = [rate |-> Num(167), score |-> 85]
    /\ PaceFluency = 78

(***************************************************************************)
(* A transcript analysed and handed, or not, to the scoring engine         *)
(***************************************************************************)
SpokenTexts == {<< >>, <<"u", "m">>, ScenarioText}

SpokenFeatureSets ==
    [duration          : {2500, 4500, 9000, 20000},
     clarity           : {65},
     pitchVariation    : {Fixed(400)},
     volumeConsistency : {500},
     totalPauses       : {4},
     pauseDuration     : {0, 800},
     pauseScore        : {95},
     speechRate        : {80, 130, 200}]

InitSpoken ==
    /\ pc = "analyzeTranscript"
    /\ text \in SpokenTexts
    /\ textAnalysis = NULL
    /\ audioFeatures \in SpokenFeatureSets
    /\ topic \in Topics
    /\ transcriptionAnalysis = NULL
    /\ assessment = NULL
    /\ calls = <<>>
    /\ NoWords /\ NoOverall /\ NoAudio /\ NoApp

\* the transcript is analysed; the caller passes the analysis on, or nothing
AnalyzeSpoken ==
    /\ pc = "analyzeTranscript"
    /\ textAnalysis' = analyzeTranscript(text)
    /\ transcriptionAnalysis' \in {analyzeTranscript(text), NoTranscript}
    /\ pc' = "analyzeFullSpeaking"
    /\ UNCHANGED <<text, wordList, advancedFound, audioFeatures, topic, assessment, calls>>
    /\ UNCHANGED <<overallVars, audioVars>>
    /\ UNCHANGED appVars

NextSpoken == AnalyzeSpoken \/ AnalyzeFullSpeaking

SpecSpoken == InitSpoken /\ [][NextSpoken]_vars

\* Math.round((duration - pauseDuration) * (speechRate / 60)) of a FeatureSet
EstimatedWords(f) ==
    (2 * (f.duration - f.pauseDuration) * f.speechRate + 6000) \div 12000

\* C16: the analysis of an empty transcript has wordCount 0, every count 0 and
\* both indicator scores 50; with that analysis, or with no transcript, the
\* vocabulary score is the audio-estimated one: 45, plus 25 for 150 estimated
\* words or more, 15 for 80 or more, plus 5 for a topic that is not custom.
C16_EmptyTranscript ==
    /\ (pc # "analyzeTranscript" /\ text = << >> =>
           /\ textAnalysis.wordCount = 0 /\ textAnalysis.uniqueWordCount = 0
           /\ textAnalysis.sentenceCount = 0 /\ textAnalysis.fillerWordCount = 0
           /\ textAnalysis.advancedWordCount = 0
           /\ textAnalysis.grammarIndicators.score = 50
           /\ textAnalysis.coherenceIndicators.score = 50)
    /\ (pc = "done" /\ (text = << >> \/ ~transcriptionAnalysis.present) =>
           assessment.scores.vocabulary =
               45 + (IF EstimatedWords(audioFeatures) >= 150 THEN 25
                     ELSE IF EstimatedWords(audioFeatures) >= 80 THEN 15 ELSE 0)
                  + (IF topic # "custom" THEN 5 ELSE 0))

C16_Witness ==
    /\ pc = "done"
    /\ text = << >>
    /\ transcriptionAnalysis.present /\ transcriptionAnalysis.wordCount = 0
    /\ assessment.scores.vocabulary = 70

(***************************************************************************)
(* detectAdvancedVocabulary applied to word lists                          *)
(***************************************************************************)
WordPool ==
    {<<"a", "s", "p", "e", "c", "t">>,
     <<"f", "u", "r", "t", "h", "e", "r", "m", "o", "r", "e">>,
     <<"F", "u", "r", "t", "h", "e", "r", "m", "o", "r", "e">>,
     <<"b", "e", "a", "u", "t", "i", "f", "u", "l">>,
     <<"E", "L", "E", "P", "H", "A", "N", "T", "S">>,
     <<"c", "a", "t">>}

MaxWords == 3

Alphabet == <<"a", "b", "c", "d", "e", "f", "g", "h", "i", "j", "k", "l", "m", "n", "o", "p", "q", "r", "s", "t", "u", "v", "w", "x", "y">>

\* twenty-five different words of eight letters, none of them curated
ManyLongWords == [i \in 1..Len(Alphabet) |-> <<"w", "o", "r", "d", "i", "n", "g">> \o <<Alphabet[i]>>]

CrowdedWordLists ==
    {ManyLongWords,
     <<<<"i", "m", "p", "a", "c", "t">>>> \o ManyLongWords \o <<<<"a", "s", "p", "e", "c", "t">>>>,
     SubSeq(ManyLongWords, 1, 19) \o <<<<"c", "a", "t">>, <<"a", "s", "p", "e", "c", "t">>, <<"F", "u", "r", "t", "h", "e", "r", "m", "o", "r", "e">>>>,
     SubSeq(advancedWordList, 21, 45),
     SubSeq(ManyLongWords, 1, 5) \o SubSeq(advancedWordList, 1, 22)}

WordLists == UNION {[1..n -> WordPool] : n \in 0..MaxWords} \cup CrowdedWordLists

InitWords ==
    /\ pc = "detectAdvancedVocabulary"
    /\ wordList \in WordLists
    /\ advancedFound = NULL
    /\ text = NULL /\ textAnalysis = NULL
    /\ NoOverall /\ NoScoring /\ NoAudio /\ NoApp

DetectAdvancedVocabulary ==
    /\ pc = "detectAdvancedVocabulary"
    /\ advancedFound' = detectAdvancedVocabulary(wordList)
    /\ pc' = "done"
    /\ UNCHANGED <<wordList, text, textAnalysis, overallVars, scoringVars, audioVars>>
    /\ UNCHANGED appVars

NextWords == DetectAdvancedVocabulary

SpecWords == InitWords /\ [][NextWords]_vars

Curated == Range(advancedWordList)

\* C18: detectAdvancedVocabulary returns a list with no duplicates and at most
\* 20 entries, every entry a curated word or a word of 8 characters or more
\* among the words given, in which every curated match precedes every word
\* added for its length alone.
C18_AdvancedVocabulary ==
    pc = "done" =>
        /\ Len(advancedFound) <= 20
        /\ \A i, j \in 1..Len(advancedFound) :
               i # j => advancedFound[i] # advancedFound[j]
        /\ \A i \in 1..Len(advancedFound) :
               /\ \E k \in 1..Len(wordList) : toLowerCase(wordList[k]) = advancedFound[i]
               /\ advancedFound[i] \in Curated \/ Len(advancedFound[i]) >= 8
        /\ \A i, j \in 1..Len(advancedFound) :
               advancedFound[i] \in Curated /\ advancedFound[j] \notin Curated => i < j

\* a curated word of 8 letters or more given twice, in two spellings, after a
\* long word that is not curated
C18_Witness ==
    /\ pc = "done"
    /\ wordList = <<<<"b", "e", "a", "u", "t", "i", "f", "u", "l">>, <<"F", "u", "r", "t", "h", "e", "r", "m", "o", "r", "e">>, <<"f", "u", "r", "t", "h", "e", "r", "m", "o", "r", "e">>>>
    /\ advancedFound = <<<<"f", "u", "r", "t", "h", "e", "r", "m", "o", "r", "e">>, <<"b", "e", "a", "u", "t", "i", "f", "u", "l">>>>

\* more than 20 candidates: two curated matches, then the first 18 long words
C18_FullWitness ==
    /\ pc = "done"
    /\ Len(wordList) = 27
    /\ Len(advancedFound) = 20
    /\ advancedFound[1] = <<"a", "s", "p", "e", "c", "t">> /\ advancedFound[2] = <<"i", "m", "p", "a", "c", "t">>
    /\ advancedFound[20] = ManyLongWords[18]

(***************************************************************************)
(* StorageManager: the assessments, their audio and the statistics kept    *)
(* in localStorage.                                                        *)
(*   - an id 'assess_' + Date.now() + '_' + random is the number of the    *)
(*     save that made it, and so is the time of the save; time 0 stands    *)
(*     for a date that is null;                                            *)
(*   - localStorage.setItem either stores the item or throws               *)
(*     QuotaExceededError and stores nothing.                              *)
(***************************************************************************)
MaxStored == 100

MaxProgress == 50

KeptAudios == 20

\* StorageManager.init on an empty localStorage
EmptyStats ==
    [totalAssessments |-> 0, totalSpeakingTime |-> 0, averageScore |-> 0,
     bestScore |-> 0, levelProgress |-> << >>,
     firstAssessment |-> 0, lastAssessment |-> 0]

getAllAssessments == storedAssessments

getStatistics == storedStats

\* the statistics updateStatistics writes once `assessments` is stored
updateStatistics(stats, assessments, saved, now) ==
    LET totalScore == SumSeq([i \in 1..Len(assessments) |-> assessments[i].overallScore])
        progress   == Append(stats.levelProgress,
                             [date |-> now, level |-> saved.level,
                              score |-> saved.overallScore])
    IN  [totalAssessments  |-> Len(assessments),
         totalSpeakingTime |-> stats.totalSpeakingTime + saved.duration,
         averageScore      |-> RoundDiv(totalScore, Len(assessments)),
         bestScore         |-> IF saved.overallScore > stats.bestScore
                               THEN saved.overallScore ELSE stats.bestScore,
         levelProgress     |-> IF Len(progress) > MaxProgress
                               THEN SliceLast(progress, MaxProgress) ELSE progress,
         firstAssessment   |-> IF stats.firstAssessment = 0 THEN now
                               ELSE stats.firstAssessment,
         lastAssessment    |-> now]

\* localStorage.removeItem(AUDIO_KEY + assessmentId)
deleteAudioFile(audio, assessmentId) == audio \ {assessmentId}

\* what the analyses saved are, the first ones of either kind
MaxSaves == 102

VariedSaves == 1

MaxFailedWrites == 1

SavedInputs(n) ==
    IF n < VariedSaves
    THEN {[overallScore |-> 40, level |-> "A2", duration |-> 30],
          [overallScore |-> 70, level |-> "B2", duration |-> 90]}
    ELSE {[overallScore |-> 40, level |-> "A2", duration |-> 30]}

\* the saves whose audio file may be kept, and the entries that may be deleted
AudioIds == {1, 2, 101}

DeletableIds == {2, 101}

\* the numbers of saves made after which localStorage may be full
FullAfter == {0, 1, 100, 101}

\* whether a localStorage.setItem stores its item (TRUE) or throws
WriteOutcomes ==
    IF failedWrites < MaxFailedWrites /\ savedCount \in FullAfter
    THEN BOOLEAN ELSE {TRUE}

InitStorage ==
    /\ pc = "storage"
    /\ storedAssessments = << >>
    /\ storedAudio = {}
    /\ storedStats = EmptyStats
    /\ savedCount = 0
    /\ failedWrites = 0
    /\ NoOverall /\ NoScoring /\ NoTranscriber /\ NoAudio
    /\ NoSession /\ NoRecorder /\ NoBrain

\* saveAssessment(assessment); listWritten and statsWritten tell whether the
\* two setItem calls store their item
SaveAssessment ==
    /\ pc = "storage"
    /\ savedCount < MaxSaves
    /\ \E saved \in SavedInputs(savedCount), listWritten \in WriteOutcomes :
        \E statsWritten \in (IF listWritten THEN WriteOutcomes ELSE {TRUE}) :
          LET now        == savedCount + 1
              entry      == [id |-> now, savedAt |-> now, version |-> 3,
                             overallScore |-> saved.overallScore,
                             level |-> saved.level,
                             duration |-> saved.duration]
              unshifted  == <<entry>> \o getAllAssessments
              overfull   == Len(unshifted) > MaxStored
              assessments == IF overfull THEN Front(unshifted) ELSE unshifted
          IN  /\ savedCount' = now
              /\ storedAudio' = IF overfull
                                THEN deleteAudioFile(storedAudio, Last(unshifted).id)
                                ELSE storedAudio
              /\ storedAssessments' = IF listWritten THEN assessments
                                      ELSE storedAssessments
              /\ storedStats' = IF listWritten /\ statsWritten
                                THEN updateStatistics(getStatistics, assessments, entry, now)
                                ELSE storedStats
              /\ failedWrites' = failedWrites
                                  + (IF listWritten /\ statsWritten THEN 0 ELSE 1)
    /\ UNCHANGED <<pc, overallVars, scoringVars, transcriptVars, audioVars>>
    /\ UNCHANGED <<sessionVars, recorderVars, brainVars>>

\* saveAudioFile(audioBlob, assessmentId) for the assessment just saved: the
\* item is stored, or skipped as too large, or the write throws and
\* cleanOldAudios removes the audio of all but the 20 newest assessments
SaveAudioFile ==
    /\ pc = "storage"
    /\ Len(storedAssessments) > 0
    /\ storedAssessments[1].id = savedCount
    /\ savedCount \in AudioIds
    /\ savedCount \notin storedAudio
    /\ \E written \in WriteOutcomes :
          /\ storedAudio' =
                IF written THEN storedAudio \cup {savedCount}
                ELSE storedAudio \ {getAllAssessments[i].id :
                                       i \in (KeptAudios + 1)..Len(getAllAssessments)}
          /\ failedWrites' = failedWrites + (IF written THEN 0 ELSE 1)
    /\ UNCHANGED <<storedAssessments, storedStats, savedCount>>
    /\ UNCHANGED <<pc, overallVars, scoringVars, transcriptVars, audioVars>>
    /\ UNCHANGED <<sessionVars, recorderVars, brainVars>>

\* deleteAssessment(id)
DeleteAssessment ==
    /\ pc = "storage"
    /\ \E id \in DeletableIds, written \in WriteOutcomes :
          /\ \E i \in 1..Len(storedAssessments) : storedAssessments[i].id = id
          /\ storedAssessments' =
                IF written
                THEN SelectSeq(getAllAssessments, LAMBDA a : a.id # id)
                ELSE storedAssessments
          /\ storedAudio' = IF written THEN deleteAudioFile(storedAudio, id)
                            ELSE storedAudio
          /\ failedWrites' = failedWrites + (IF written THEN 0 ELSE 1)
    /\ UNCHANGED <<storedStats, savedCount>>
    /\ UNCHANGED <<pc, overallVars, scoringVars, transcriptVars, audioVars>>
    /\ UNCHANGED <<sessionVars, recorderVars, brainVars>>

NextStorage == SaveAssessment \/ SaveAudioFile \/ DeleteAssessment

SpecStorage == InitStorage /\ [][NextStorage]_vars

StoredIds == {storedAssessments[i].id : i \in 1..Len(storedAssessments)}

\* what a saveAssessment call that stores its list does to the list
SavedNewestFirst ==
    /\ Len(storedAssessments') <= MaxStored
    /\ \A i, j \in 1..Len(storedAssessments') :
          i < j => storedAssessments'[i].savedAt > storedAssessments'[j].savedAt
    /\ Len(storedAssessments) = MaxStored /\ storedAssessments' # storedAssessments =>
          /\ Len(storedAssessments') = MaxStored
          /\ SubSeq(storedAssessments', 2, MaxStored) = Front(storedAssessments)
          /\ Last(storedAssessments).id \notin storedAudio'

\* the entries stored after the call have the audio they had before it
KeptAudioUnchanged ==
    \A i \in 1..Len(storedAssessments') :
        storedAssessments'[i].id \in storedAudio'
            <=> storedAssessments'[i].id \in storedAudio

\* C21: the stored list holds at most 100 entries, newest first; a
\* saveAssessment call made when 100 are stored drops exactly the oldest entry
\* and removes that entry's audio, and every entry in the list after a call
\* has the audio it had before the call.
C21_SaveKeepsNewest ==
    [][ savedCount' # savedCount => SavedNewestFirst /\ KeptAudioUnchanged ]_vars

\* the calls that store their list treat the list as C21 says
SavesWrittenKeepNewest ==
    [][ savedCount' # savedCount => SavedNewestFirst ]_vars

(***************************************************************************)
(* Transcriber: a transcription session over the browser's                 *)
(* SpeechRecognition.                                                      *)
(*   - the recognizer is idle, starting (start() accepted, the start event *)
(*     not yet delivered), listening, or ending (stop() called or an error *)
(*     raised, the end event not yet delivered); start() throws unless the *)
(*     recognizer is idle;                                                 *)
(*   - a start event that is owed when stop() is called may still be       *)
(*     delivered before the end event;                                     *)
(*   - texts are sequences of characters.                                  *)
(***************************************************************************)
Idle == [phase |-> "idle", startOwed |-> FALSE]

\* recognition.start(): the recognizer after the call, and whether it threw
RecognitionStart(r) ==
    IF r.phase = "idle"
    THEN [after |-> [phase |-> "starting", startOwed |-> TRUE], threw |-> FALSE]
    ELSE [after |-> r, threw |-> TRUE]

\* recognition.stop()
RecognitionStop(r) ==
    IF r.phase \in {"starting", "listening"} THEN [r EXCEPT !.phase = "ending"] ELSE r

\* String.prototype.trim
RECURSIVE Trim(_)
Trim(t) ==
    IF t = << >> THEN t
    ELSE IF Head(t) \in WhiteSpace THEN Trim(Tail(t))
    ELSE IF Last(t) \in WhiteSpace THEN Trim(Front(t))
    ELSE t

getFullTranscript(final, interim) == Trim(final \o interim)

\* recognition.onerror stopping the session on every error
onerrorAlwaysStops(transcribing, error) == FALSE

\* what recognition.onerror leaves in isTranscribing
onerror(transcribing, error) == IF error # "no-speech" THEN FALSE ELSE transcribing

MaxHeard == 2

RecognitionErrors == {"no-speech", "network", "not-allowed"}

\* the results of one result event, from event.resultIndex on
ResultLists ==
    {<<[isFinal |-> TRUE, transcript |-> <<"h", "i">>]>>,
     <<[isFinal |-> FALSE, transcript |-> <<"y", "o">>]>>,
     <<[isFinal |-> TRUE, transcript |-> <<"h", "i">>],
       [isFinal |-> FALSE, transcript |-> <<"y", "o">>]>>}

Did(name) == [name |-> name, restarted |-> FALSE, completed |-> FALSE, delivered |-> << >>]

InitSession ==
    /\ pc = "transcriber"
    /\ isTranscribing = FALSE
    /\ heardTranscript = << >>
    /\ heardInterim = << >>
    /\ recognition = Idle
    /\ completeHandler \in BOOLEAN
    /\ session = [state |-> "none", fatal |-> FALSE]
    /\ lastCall = Did("constructor")
    /\ NoOverall /\ NoScoring /\ NoTranscriber /\ NoAudio
    /\ NoStorage /\ NoRecorder /\ NoBrain

\* Transcriber.start()
Start ==
    /\ pc = "transcriber"
    /\ heardTranscript' = << >>
    /\ heardInterim' = << >>
    /\ isTranscribing' = TRUE
    /\ recognition' = RecognitionStart(recognition).after
    /\ session' = [state |-> "active", fatal |-> FALSE]
    /\ lastCall' = Did("start")
    /\ UNCHANGED <<pc, completeHandler, overallVars, scoringVars, transcriptVars, audioVars>>
    /\ UNCHANGED <<storageVars, recorderVars, brainVars>>

\* Transcriber.stop(), which returns the full transcript
Stop ==
    /\ pc = "transcriber"
    /\ isTranscribing' = FALSE
    /\ recognition' = RecognitionStop(recognition)
    /\ session' = [session EXCEPT !.state = IF @ = "none" THEN @ ELSE "stopped"]
    /\ lastCall' = [Did("stop") EXCEPT
                      !.delivered = getFullTranscript(heardTranscript, heardInterim)]
    /\ UNCHANGED <<pc, heardTranscript, heardInterim, completeHandler>>
    /\ UNCHANGED <<overallVars, scoringVars, transcriptVars, audioVars>>
    /\ UNCHANGED <<storageVars, recorderVars, brainVars>>

\* recognition.onstart
OnStart ==
    /\ pc = "transcriber"
    /\ recognition.startOwed
    /\ isTranscribing' = TRUE
    /\ recognition' = [phase |-> IF recognition.phase = "starting" THEN "listening"
                                  ELSE recognition.phase,
                        startOwed |-> FALSE]
    /\ lastCall' = Did("onstart")
    /\ UNCHANGED <<pc, heardTranscript, heardInterim, completeHandler, session>>
    /\ UNCHANGED <<overallVars, scoringVars, transcriptVars, audioVars>>
    /\ UNCHANGED <<storageVars, recorderVars, brainVars>>

RECURSIVE FinalOf(_)
FinalOf(results) ==
    IF results = << >> THEN << >>
    ELSE (IF Head(results).isFinal THEN Head(results).transcript \o <<" ">> ELSE << >>)
         \o FinalOf(Tail(results))

RECURSIVE InterimOf(_)
InterimOf(results) ==
    IF results = << >> THEN << >>
    ELSE (IF Head(results).isFinal THEN << >> ELSE Head(results).transcript)
         \o InterimOf(Tail(results))

\* recognition.onresult
OnResult ==
    /\ pc = "transcriber"
    /\ recognition.phase \in {"listening", "ending"}
    /\ ~recognition.startOwed
    /\ Len(heardTranscript) < 3 * MaxHeard
    /\ \E results \in ResultLists :
          /\ heardTranscript' = heardTranscript \o FinalOf(results)
          /\ heardInterim' = InterimOf(results)
    /\ lastCall' = Did("onresult")
    /\ UNCHANGED <<pc, isTranscribing, recognition, completeHandler, session>>
    /\ UNCHANGED <<overallVars, scoringVars, transcriptVars, audioVars>>
    /\ UNCHANGED <<storageVars, recorderVars, brainVars>>

\* recognition.onerror; the recognizer then ends without a start event
OnError ==
    /\ pc = "transcriber"
    /\ recognition.phase \in {"starting", "listening"}
    /\ \E error \in RecognitionErrors :
          /\ isTranscribing' = onerror(isTranscribing, error)
          /\ session' = [session EXCEPT !.fatal = @ \/ error # "no-speech"]
          /\ lastCall' = [Did("onerror") EXCEPT !.delivered = <<error>>]
    /\ recognition' = [phase |-> "ending", startOwed |-> FALSE]
    /\ UNCHANGED <<pc, heardTranscript, heardInterim, completeHandler>>
    /\ UNCHANGED <<overallVars, scoringVars, transcriptVars, audioVars>>
    /\ UNCHANGED <<storageVars, recorderVars, brainVars>>

\* recognition.onend: the recognizer has ended, by itself, on an error or on
\* stop(), and is idle when the handler runs
OnEnd ==
    /\ pc = "transcriber"
    /\ recognition.phase \in {"listening", "ending"}
    /\ LET restart   == RecognitionStart(Idle)
           transcribing == isTranscribing /\ ~restart.threw
           completed == completeHandler /\ ~transcribing
       IN  /\ recognition' = IF isTranscribing THEN restart.after ELSE Idle
           /\ isTranscribing' = transcribing
           /\ lastCall' =
                 [name |-> "onend", restarted |-> isTranscribing,
                  completed |-> completed,
                  delivered |-> IF completed
                                THEN getFullTranscript(heardTranscript, heardInterim)
                                ELSE << >>]
    /\ UNCHANGED <<pc, heardTranscript, heardInterim, completeHandler, session>>
    /\ UNCHANGED <<overallVars, scoringVars, transcriptVars, audioVars>>
    /\ UNCHANGED <<storageVars, recorderVars, brainVars>>

NextSession == Start \/ Stop \/ OnStart \/ OnResult \/ OnError \/ OnEnd

SpecSession == InitSession /\ [][NextSession]_vars

\* C22: while a session is active (start() called, stop() not yet), an onend
\* event calls recognition.start() again and does not fire
\* onTranscriptComplete; an onerror with 'no-speech' leaves isTranscribing as
\* it is, any other error sets it to false, and the next onend then does not
\* restart and hands the full transcript to onTranscriptComplete, if one is set.
C22_ActiveSessionRestarts ==
    [][ session.state = "active" =>
          /\ lastCall'.name = "onend" /\ ~session.fatal =>
                lastCall'.restarted /\ ~lastCall'.completed /\ isTranscribing'
          /\ lastCall'.name = "onend" /\ session.fatal =>
                /\ ~lastCall'.restarted /\ recognition' = Idle
                /\ completeHandler =>
                      /\ lastCall'.completed
                      /\ lastCall'.delivered = Trim(heardTranscript \o heardInterim)
          /\ lastCall'.name = "onerror" /\ lastCall'.delivered = <<"no-speech">> =>
                isTranscribing' = isTranscribing /\ session'.fatal = session.fatal
          /\ lastCall'.name = "onerror" /\ lastCall'.delivered # <<"no-speech">> =>
                ~isTranscribing' ]_vars

\* an onend that restarted after a 'no-speech' error, with words heard
C22_Witness ==
    /\ pc = "transcriber"
    /\ session = [state |-> "active", fatal |-> FALSE]
    /\ lastCall.name = "onend" /\ lastCall.restarted
    /\ heardTranscript # << >>
    /\ recognition.phase = "starting"

\* an onend that handed over the transcript after a fatal error
C22_CompleteWitness ==
    /\ pc = "transcriber"
    /\ session = [state |-> "active", fatal |-> TRUE]
    /\ lastCall.name = "onend" /\ lastCall.completed
    /\ lastCall.delivered = <<"h", "i", " ", "y", "o">>

\* C23: after stop() and until the next start(), the onend handler never
\* calls recognition.start() again, whatever the order in which the
\* recognizer's events and stop() come.
C23_NoRestartAfterStop ==
    [][ session.state = "stopped" /\ lastCall'.name = "onend" =>
          ~lastCall'.restarted ]_vars

(***************************************************************************)
(* SpeakProApp and UIController: recording, uploading and analysing.       *)
(*   - a granted getUserMedia request makes a stream and, on it, a         *)
(*     MediaRecorder; the n-th grant makes device n; 0 stands for null;    *)
(*   - a recorder that is stopped, or whose stream's tracks are stopped,   *)
(*     becomes inactive and owes a stop event;                             *)
(*   - a transcript is 0 when empty, and n when it holds words heard       *)
(*     while device n was recording.                                       *)
(***************************************************************************)
NoFile == [kind |-> "none", id |-> 0]

UploadedFile == [kind |-> "upload", id |-> 0]

RecordedBlob(chunks) == [kind |-> "recording", id |-> Head(chunks)]

\* MediaRecorder.stop() on device r
RecorderStop(devices, r) ==
    IF devices[r].recorder = "recording"
    THEN [devices EXCEPT ![r].recorder = "inactive", ![r].stopOwed = TRUE]
    ELSE devices

\* track.stop() on every track of stream s: the stream ends, and so does
\* the recorder on it
TracksStop(devices, s) ==
    [RecorderStop(devices, s) EXCEPT ![s].stream = "stopped"]

\* transcriber.stop(): the Transcriber afterwards; it returns its transcript
SpeechStop(sp) == [sp EXCEPT !.running = FALSE]

\* cleanupRecording() on st = [app, devices, speech]
cleanupRecording(st) ==
    [app     |-> [st.app EXCEPT !.mediaStream = 0, !.mediaRecorder = 0,
                                !.audioChunks = << >>, !.isRecording = FALSE,
                                !.isTranscribing = FALSE],
     devices |-> IF st.app.mediaStream # 0
                 THEN TracksStop(st.devices, st.app.mediaStream)
                 ELSE st.devices,
     speech  |-> IF st.app.isTranscribing THEN SpeechStop(st.speech) ELSE st.speech]

\* stopRecording() on st = [app, devices, speech]
stopRecording(st) ==
    IF st.app.mediaRecorder # 0 /\ st.app.isRecording
    THEN [st EXCEPT !.devices = RecorderStop(st.devices, st.app.mediaRecorder),
                    !.app.isRecording = FALSE]
    ELSE st

MaxRequests == 2

MaxChunks == 2

Here == [app |-> app, devices |-> media.devices, speech |-> speech]

\* the application and the browser become what st says
Becomes(st) ==
    /\ app' = st.app
    /\ media' = [media EXCEPT !.devices = st.devices]
    /\ speech' = st.speech

OtherVars ==
    <<pc, overallVars, scoringVars, transcriptVars, audioVars, storageVars, sessionVars,
      brainVars>>

InitRecorder ==
    /\ pc = "app"
    /\ app = [isRecording |-> FALSE, mediaStream |-> 0, mediaRecorder |-> 0,
              audioChunks |-> << >>, currentTranscription |-> 0,
              isTranscribing |-> FALSE]
    /\ ui = [currentFile |-> NoFile, currentMode |-> "none",
             currentTranscription |-> 0, topic |-> FALSE]
    /\ media = [requested |-> 0, pending |-> 0, devices |-> << >>]
    /\ speech = [running |-> FALSE, transcript |-> 0, device |-> 0]
    /\ analysed = NoFile
    /\ NoOverall /\ NoScoring /\ NoTranscriber /\ NoAudio
    /\ NoStorage /\ NoSession /\ NoBrain

\* the topic select is set
SelectTopic ==
    /\ pc = "app"
    /\ ~ui.topic
    /\ ui' = [ui EXCEPT !.topic = TRUE]
    /\ UNCHANGED <<app, media, speech, analysed, OtherVars>>

\* selectUploadMethod(), and handleFileUpload(file) when a valid file is chosen
SelectUploadMethod ==
    /\ pc = "app"
    /\ \E chosen \in BOOLEAN :
          ui' = IF chosen
                THEN [ui EXCEPT !.currentFile = UploadedFile, !.currentMode = "upload",
                                !.currentTranscription = 0]
                ELSE [ui EXCEPT !.currentMode = "upload"]
    /\ UNCHANGED <<app, media, speech, analysed, OtherVars>>

SelectRecordMethod ==
    /\ pc = "app"
    /\ ui' = [ui EXCEPT !.currentMode = "record", !.currentFile = NoFile,
                         !.currentTranscription = 0]
    /\ UNCHANGED <<app, media, speech, analysed, OtherVars>>

\* toggleRecording(): startRecording() up to its await, or stopRecording();
\* the record button belongs to the recording controls, shown in record mode
ToggleRecording ==
    /\ pc = "app"
    /\ ui.currentMode = "record"
    /\ IF ~app.isRecording
       THEN /\ media.requested < MaxRequests
            /\ media' = [media EXCEPT !.requested = @ + 1, !.pending = @ + 1]
            /\ UNCHANGED <<app, speech>>
       ELSE Becomes(stopRecording(Here))
    /\ UNCHANGED <<ui, analysed, OtherVars>>

\* startRecording() after its await, the microphone granted
PermissionGranted ==
    /\ pc = "app"
    /\ media.pending > 0
    /\ LET n == Len(media.devices) + 1
       IN  /\ media' = [media EXCEPT
                           !.pending = @ - 1,
                           !.devices = Append(@, [stream |-> "live",
                                                  recorder |-> "recording",
                                                  stopOwed |-> FALSE])]
           /\ speech' = [running |-> TRUE, transcript |-> 0, device |-> n]
           /\ app' = [isRecording |-> TRUE, mediaStream |-> n, mediaRecorder |-> n,
                      audioChunks |-> << >>, currentTranscription |-> 0,
                      isTranscribing |-> TRUE]
    /\ UNCHANGED <<ui, analysed, OtherVars>>

\* startRecording() after its await, the microphone refused: the catch block
PermissionDenied ==
    /\ pc = "app"
    /\ media.pending > 0
    /\ LET st == cleanupRecording(Here)
       IN  /\ app' = st.app
           /\ speech' = st.speech
           /\ media' = [media EXCEPT !.pending = @ - 1, !.devices = st.devices]
    /\ UNCHANGED <<ui, analysed, OtherVars>>

\* transcriber.onTranscriptUpdate(data)
OnTranscriptUpdate ==
    /\ pc = "app"
    /\ speech.running
    /\ speech.transcript = 0
    /\ speech' = [speech EXCEPT !.transcript = speech.device]
    /\ app' = [app EXCEPT !.currentTranscription = speech.device]
    /\ UNCHANGED <<ui, media, analysed, OtherVars>>

\* mediaRecorder.ondataavailable of device r
OnDataAvailable ==
    /\ pc = "app"
    /\ \E r \in 1..Len(media.devices), sized \in BOOLEAN :
          /\ media.devices[r].recorder = "recording" \/ media.devices[r].stopOwed
          /\ Len(app.audioChunks) < MaxChunks
          /\ sized
          /\ app' = [app EXCEPT !.audioChunks = Append(@, r)]
    /\ UNCHANGED <<ui, media, speech, analysed, OtherVars>>

\* mediaRecorder.onstop of device r; tooShort: the blob has under 1000 bytes
OnStop ==
    /\ pc = "app"
    /\ \E r \in 1..Len(media.devices), tooShort \in BOOLEAN :
          /\ media.devices[r].stopOwed
          /\ LET fired   == [media.devices EXCEPT ![r].stopOwed = FALSE]
                 stopped == [app |-> IF app.isTranscribing
                                     THEN [app EXCEPT
                                             !.currentTranscription = speech.transcript,
                                             !.isTranscribing = FALSE]
                                     ELSE app,
                             devices |-> fired,
                             speech |-> IF app.isTranscribing THEN SpeechStop(speech)
                                        ELSE speech]
             IN  IF stopped.app.audioChunks = << >>
                 THEN Becomes(cleanupRecording(stopped)) /\ UNCHANGED ui
                 ELSE IF stopped.app.mediaRecorder = 0
                 THEN \* this.mediaRecorder.mimeType throws a TypeError
                      Becomes(stopped) /\ UNCHANGED ui
                 ELSE IF tooShort
                 THEN Becomes(cleanupRecording(stopped)) /\ UNCHANGED ui
                 ELSE /\ ui' = [ui EXCEPT
                                  !.currentFile = RecordedBlob(stopped.app.audioChunks),
                                  !.currentTranscription =
                                      stopped.app.currentTranscription]
                      /\ Becomes(cleanupRecording(stopped))
    /\ UNCHANGED <<analysed, OtherVars>>

\* mediaRecorder.onerror of device r: the recorder has stopped
OnRecorderError ==
    /\ pc = "app"
    /\ \E r \in 1..Len(media.devices) :
          /\ media.devices[r].recorder = "recording"
          /\ Becomes(cleanupRecording([Here EXCEPT !.devices = RecorderStop(@, r)]))
    /\ UNCHANGED <<ui, analysed, OtherVars>>

\* resetApp(), with resetUI()
ResetApp ==
    /\ pc = "app"
    /\ LET st == cleanupRecording(stopRecording(Here))
       IN  Becomes([st EXCEPT !.app.currentTranscription = 0])
    /\ ui' = [currentFile |-> NoFile, currentMode |-> "none",
              currentTranscription |-> 0, topic |-> FALSE]
    /\ UNCHANGED <<analysed, OtherVars>>

\* startAnalysis() up to the analysis of the file and the transcript it chose
StartAnalysis ==
    /\ pc = "app"
    /\ ui.currentFile # NoFile
    /\ ui.topic
    /\ analysed' = [kind |-> ui.currentFile.kind, id |-> ui.currentFile.id,
                    transcription |-> JsOr(ui.currentTranscription,
                                           app.currentTranscription)]
    /\ UNCHANGED <<app, ui, media, speech, OtherVars>>

NextRecorder ==
    \/ SelectTopic \/ SelectUploadMethod \/ SelectRecordMethod
    \/ ToggleRecording \/ PermissionGranted \/ PermissionDenied
    \/ OnTranscriptUpdate \/ OnDataAvailable \/ OnStop \/ OnRecorderError
    \/ ResetApp \/ StartAnalysis

SpecRecorder == InitRecorder /\ [][NextRecorder]_vars

\* C24: after any sequence of record, upload, select-method and reset
\* actions, analysing an uploaded file uses no transcript.
C24_UploadHasNoTranscript ==
    (pc = "app" /\ analysed.kind = "upload") => analysed.transcription = 0

LiveStreams == {s \in 1..Len(media.devices) : media.devices[s].stream = "live"}

ActiveRecorders == {r \in 1..Len(media.devices) : media.devices[r].recorder = "recording"}

\* C25: whatever the order of the toggleRecording calls and the answers to
\* the microphone requests, at most one media stream is live and at most one
\* MediaRecorder is recording, and a live stream is the one in mediaStream,
\* which cleanupRecording stops.
C25_OneStreamOneRecorder ==
    pc = "app" =>
        /\ Cardinality(LiveStreams) <= 1
        /\ Cardinality(ActiveRecorders) <= 1
        /\ \A s \in LiveStreams : app.mediaStream = s

\* C26: after any sequence of saveAssessment and deleteAssessment calls,
\* getStatistics().totalAssessments is the number of assessments that
\* getAllAssessments() returns.
C26_TotalIsStoredCount ==
    pc = "storage" => getStatistics.totalAssessments = Len(getAllAssessments)
(***************************************************************************)
(* BrainSystem: the brain kept in localStorage and learnFromSession.       *)
(* Dates are left out; sessions come without a transcription, so the word  *)
(* bank stays as getDefaultBrain made it.                                  *)
(***************************************************************************)
HistoryKept == 100

getDefaultBrain ==
    [userProfile      |-> [totalSessions |-> 0, preferredTopics |-> << >>],
     learningPatterns |-> [strongSkills |-> << >>, weakSkills |-> << >>,
                           improvingSkills |-> << >>, decliningSkills |-> << >>],
     commonMistakes   |-> [pronunciation |-> << >>, grammar |-> << >>,
                           vocabulary |-> << >>, fluency |-> << >>],
     topicMastery     |-> << >>,
     wordBank         |-> [fillerWords |-> 0, totalWords |-> 0],
     milestones       |-> << >>,
     personalizedTips |-> << >>,
     sessionHistory   |-> << >>]

\* the index of the first entry of seq that has the property, 0 if none has
FindIndex(seq, Has(_)) ==
    IF \E i \in 1..Len(seq) : Has(seq[i])
    THEN CHOOSE i \in 1..Len(seq) : Has(seq[i]) /\ \A j \in 1..(i - 1) : ~Has(seq[j])
    ELSE 0

\* seq.slice(-2 * n, -n)
SliceBefore(seq, n) ==
    SubSeq(seq, IF Len(seq) > 2 * n THEN Len(seq) - 2 * n + 1 ELSE 1, Len(seq) - n)

updateTopicPreference(br, topicId) ==
    LET topics == br.userProfile.preferredTopics
        at     == FindIndex(topics, LAMBDA t : t.topic = topicId)
        counted == IF at > 0
                   THEN [topics EXCEPT ![at].count = @ + 1]
                   ELSE Append(topics, [topic |-> topicId, count |-> 1])
        sorted == SortBy(counted, [t \in Range(counted) |-> 0 - t.count])
    IN  [br EXCEPT !.userProfile.preferredTopics = SliceFirst(sorted, 10)]

\* the trend of a topic's scores: the last three against the three before
TopicTrend(before, topicScores) ==
    LET recent == SliceLast(topicScores, 3)
        older  == SliceBefore(topicScores, 3)
        gain   == SumSeq(recent) * Len(older) - SumSeq(older) * Len(recent)
        five   == 5 * Len(recent) * Len(older)
    IN  IF Len(topicScores) >= 3 /\ Len(older) > 0
        THEN IF gain > five THEN "improving"
             ELSE IF 0 - gain > five THEN "declining"
             ELSE "stable"
        ELSE before

updateTopicMastery(br, topicId, score) ==
    LET known   == br.topicMastery
        found   == FindIndex(known, LAMBDA m : m.topic = topicId)
        started == IF found > 0 THEN known
                   ELSE Append(known, [topic |-> topicId, attempts |-> 0, totalScore |-> 0,
                                       averageScore |-> 0, bestScore |-> 0, lastScore |-> 0,
                                       trend |-> "stable", scores |-> << >>])
        at      == IF found > 0 THEN found ELSE Len(started)
        mastery == started[at]
        kept    == SliceLast(Append(mastery.scores, score), 10)
    IN  [br EXCEPT !.topicMastery =
            [started EXCEPT ![at] =
                [topic        |-> topicId,
                 attempts     |-> mastery.attempts + 1,
                 totalScore   |-> mastery.totalScore + score,
                 averageScore |-> RoundDiv(mastery.totalScore + score, mastery.attempts + 1),
                 bestScore    |-> IF score > mastery.bestScore THEN score ELSE mastery.bestScore,
                 lastScore    |-> score,
                 trend        |-> TopicTrend(mastery.trend, kept),
                 scores       |-> kept]]]

\* the sum of a skill's scores over sessions
RECURSIVE SkillSum(_, _)
SkillSum(sessions, skill) ==
    IF sessions = << >> THEN 0
    ELSE Head(sessions).scores[skill] + SkillSum(Tail(sessions), skill)

\* recentAvg - olderAvg as the fraction num / den, den > 0
SkillDiff(history, skill) ==
    LET recentSessions == SliceLast(history, 5)
        olderSessions  == SliceBefore(history, 5)
    IN  [num |-> SkillSum(recentSessions, skill) * Len(olderSessions)
                   - SkillSum(olderSessions, skill) * Len(recentSessions),
         den |-> Len(recentSessions) * Len(olderSessions)]

\* the forEach over the skills that follows the history's trends, skill by skill
RECURSIVE TrendsFrom(_, _, _, _)
TrendsFrom(patterns, history, keys, i) ==
    IF i > Len(keys) THEN patterns
    ELSE
    LET skill == keys[i]
        diff  == SkillDiff(history, skill)
        next  ==
            IF diff.num > 5 * diff.den
            THEN IF \E s \in Range(patterns.improvingSkills) : s.skill = skill
                 THEN patterns
                 ELSE [patterns EXCEPT !.improvingSkills =
                          Append(@, [skill |-> skill,
                                     improvement |-> RoundDiv(diff.num, diff.den)])]
            ELSE IF 0 - diff.num > 5 * diff.den
            THEN IF \E s \in Range(patterns.decliningSkills) : s.skill = skill
                 THEN patterns
                 ELSE [patterns EXCEPT !.decliningSkills =
                          Append(@, [skill |-> skill,
                                     decline |-> RoundDiv(0 - diff.num, diff.den)])]
            ELSE patterns
    IN  TrendsFrom(next, history, keys, i + 1)

\* keys: Object.keys(scores)
analyzeSkillPatterns(br, sc, keys) ==
    LET rated  == [i \in 1..Len(keys) |-> [skill |-> keys[i], score |-> sc[keys[i]]]]
        strong == SelectSeq(rated, LAMBDA r : r.score >= 75)
        weak   == SelectSeq(rated, LAMBDA r : r.score < 55)
        sorted == [br.learningPatterns EXCEPT
                      !.strongSkills = SortBy(strong, [r \in Range(strong) |-> 0 - r.score]),
                      !.weakSkills   = SortBy(weak, [r \in Range(weak) |-> r.score])]
        history == br.sessionHistory
    IN  [br EXCEPT !.learningPatterns =
            \* five recent sessions and at least one older one
            IF Len(history) >= 5 /\ Len(history) > 5
            THEN TrendsFrom(sorted, history, keys, 1)
            ELSE sorted]

\* error.type.toLowerCase(), the type being a name of skillMap
CategoryOf(type) == CHOOSE k \in DOMAIN Capitalized : Capitalized[k] = type

RECURSIVE learnFromMistakes(_, _)
learnFromMistakes(br, errors) ==
    IF errors = << >> THEN br
    ELSE
    LET error    == Head(errors)
        category == CategoryOf(error.type)
    IN  IF category \notin DOMAIN br.commonMistakes
        THEN learnFromMistakes(br, Tail(errors))
        ELSE
        LET known   == br.commonMistakes[category]
            at      == FindIndex(known, LAMBDA m : m.description = error.description)
            counted == IF at > 0
                       THEN [known EXCEPT ![at].count = @ + 1]
                       ELSE Append(known, [description |-> error.description,
                                           severity |-> error.severity, count |-> 1])
            sorted  == SortBy(counted, [m \in Range(counted) |-> 0 - m.count])
        IN  learnFromMistakes([br EXCEPT !.commonMistakes[category] = SliceFirst(sorted, 10)],
                              Tail(errors))

sessionMilestones == {5, 10, 25, 50, 100}

levelAchievements == {"B1", "B2", "C1", "C2"}

checkMilestones(br, result) ==
    LET sessions == br.userProfile.totalSessions
        reached  ==
            (IF sessions = 1 THEN <<[type |-> "first_session"]>> ELSE << >>)
            \o (IF sessions \in sessionMilestones
                THEN <<[type |-> "session_count", sessions |-> sessions]>> ELSE << >>)
            \o (IF /\ result.level \in levelAchievements
                   /\ ~\E m \in Range(br.milestones) :
                          m = [type |-> "level", level |-> result.level]
                THEN <<[type |-> "level", level |-> result.level]>> ELSE << >>)
            \o (IF /\ result.overallScore >= 90
                   /\ ~\E m \in Range(br.milestones) : m.type = "score_90"
                THEN <<[type |-> "score_90"]>> ELSE << >>)
    IN  [br EXCEPT !.milestones = @ \o reached]

generatePersonalizedTips(br) ==
    LET weakSkills == br.learningPatterns.weakSkills
        declining  == br.learningPatterns.decliningSkills
        weakTopics == SelectSeq(br.topicMastery, LAMBDA m : m.averageScore < 60)
        tips ==
            (IF Len(weakSkills) > 0
             THEN <<[priority |-> "high", skill |-> weakSkills[1].skill,
                     about |-> weakSkills[1].score]>>
             ELSE << >>)
            \o [i \in 1..Len(declining) |->
                   [priority |-> "medium", skill |-> declining[i].skill,
                    about |-> declining[i].decline]]
            \o (IF br.wordBank.fillerWords > 10
                THEN <<[priority |-> "medium", skill |-> "fluency",
                        about |-> br.wordBank.fillerWords]>>
                ELSE << >>)
            \o (IF Len(weakTopics) > 0
                THEN <<[priority |-> "low", skill |-> "vocabulary",
                        about |-> weakTopics[1].averageScore]>>
                ELSE << >>)
    IN  [br EXCEPT !.personalizedTips = SliceFirst(tips, 5)]

\* the brain learnFromSession hands to saveBrain
learnFromSession(br, result) ==
    LET counted   == [br EXCEPT !.userProfile.totalSessions = @ + 1]
        preferred == updateTopicPreference(counted, result.topic)
        mastered  == updateTopicMastery(preferred, result.topic, result.overallScore)
        patterned == analyzeSkillPatterns(mastered, result.scores, SourceKeys)
        corrected == learnFromMistakes(patterned, result.errors)
        rewarded  == checkMilestones(corrected, result)
        advised   == generatePersonalizedTips(rewarded)
    IN  [advised EXCEPT !.sessionHistory =
            SliceLast(Append(@, [topic |-> result.topic, level |-> result.level,
                                 overallScore |-> result.overallScore,
                                 scores |-> result.scores]),
                      HistoryKept)]

(***************************************************************************)
(* Sessions learned one after the other                                    *)
(***************************************************************************)
MaxSessions == 9

\* the assessment analyzeFullSpeaking makes of six scores
SessionOf(sc, topicId) ==
    LET overall == calculateOverallScore(sc, SourceKeys)
        errors  == identifyErrors([i \in 1..Len(SourceKeys) |->
                                      [name |-> SourceKeys[i], score |-> sc[SourceKeys[i]]]])
    IN  [topic |-> topicId, level |-> determineLevel(overall), overallScore |-> overall,
         scores |-> sc,
         errors |-> [i \in 1..Len(errors) |->
                        [type |-> errors[i].type, severity |-> errors[i].severity,
                         description |-> errors[i].severity]]]

\* scores whose averages over one to five sessions are exact in binary
Sessions ==
    {SessionOf([pronunciation |-> 30, fluency |-> 30, vocabulary |-> 60,
                grammar |-> 60, coherence |-> 60, time |-> 30], "work"),
     SessionOf([pronunciation |-> 60, fluency |-> 90, vocabulary |-> 60,
                grammar |-> 60, coherence |-> 60, time |-> 90], "work"),
     SessionOf([pronunciation |-> 90, fluency |-> 90, vocabulary |-> 90,
                grammar |-> 90, coherence |-> 90, time |-> 90], "custom")}

\* the calls at which the quota may be used up
BrainFullAfter == {0, 6}

\* whether saveBrain's localStorage.setItem stores the brain or throws
BrainWriteOutcomes == IF learned \in BrainFullAfter THEN BOOLEAN ELSE {TRUE}

InitBrain ==
    /\ pc = "brain"
    /\ brain = getDefaultBrain
    /\ learned = 0
    /\ NoOverall /\ NoScoring /\ NoTranscriber /\ NoAudio
    /\ NoStorage /\ NoSession /\ NoRecorder

LearnFromSession ==
    /\ pc = "brain"
    /\ learned < MaxSessions
    /\ \E result \in Sessions, written \in BrainWriteOutcomes :
          brain' = IF written THEN learnFromSession(brain, result) ELSE brain
    /\ learned' = learned + 1
    /\ UNCHANGED <<pc, overallVars, scoringVars, transcriptVars, audioVars>>
    /\ UNCHANGED <<storageVars, sessionVars, recorderVars>>

\* resetBrain, confirmed
ResetBrain ==
    /\ pc = "brain"
    /\ brain' = getDefaultBrain
    /\ UNCHANGED <<pc, learned, overallVars, scoringVars, transcriptVars, audioVars>>
    /\ UNCHANGED <<storageVars, sessionVars, recorderVars>>

NextBrain == LearnFromSession \/ ResetBrain

SpecBrain == InitBrain /\ [][NextBrain]_vars

SkillsOf(listed) == {listed[i].skill : i \in 1..Len(listed)}

\* the history analyzeSkillPatterns read at the latest session: the one stored
\* without its last entry
HistoryAtLatest == SubSeq(brain.sessionHistory, 1, Len(brain.sessionHistory) - 1)

\* C30: no skill is listed in both improvingSkills and decliningSkills of the
\* stored brain, and a skill listed as declining is one whose average over
\* the last 5 sessions is more than 5 points below its average over the 5
\* before, at the time of the latest session.
C30_TrendListsDisjoint ==
    pc = "brain" =>
        /\ SkillsOf(brain.learningPatterns.improvingSkills)
              \cap SkillsOf(brain.learningPatterns.decliningSkills) = {}
        /\ \A skill \in SkillsOf(brain.learningPatterns.decliningSkills) :
              /\ Len(HistoryAtLatest) > 5
              /\ LET diff == SkillDiff(HistoryAtLatest, skill)
                 IN  0 - diff.num > 5 * diff.den

====
